---------------------------- MODULE Spec2Model ----------------------------
(***************************************************************************)
(* A model of the regular-expression core of peter_grep: the pattern       *)
(* parser (parser.rs, reader.rs), the graph compiler (ast.rs), the         *)
(* conditions and the capturer (cond.rs, capturer.rs) and the depth-first  *)
(* evaluator (evaluator.rs).                                               *)
(*                                                                         *)
(* A character is a one-character string, a Rust String or &[char] is a    *)
(* sequence of characters, Option<u64> is a sequence of length 0 (None) or *)
(* 1 (Some(n)), and an enum value is a record whose first field names the  *)
(* variant.                                                                *)
(***************************************************************************)
EXTENDS Integers, Sequences, FiniteSets, TLC

VARIABLES
  pc,              \* position of the run: see the actions
  pattern,         \* the pattern string handed to Parser::parse_regex_str
  subject,         \* the subject line handed to str_to_tokens
  ast,             \* Result<AstNode, Error> of the parse
  transitions,     \* Evaluator.transitions (the output of generate())
  chars,           \* is_match's argument: the token stream
  loop_start_transitions, \* is_match's local of that name
  matches,         \* is_match's local: the recorded ranges
  offset,          \* is_match's local: the start position under search
  visit_counter,   \* is_match's local, fresh per offset: state -> uses
  id_provider,     \* is_match's local, fresh per offset: Incrementer.v
  stack,           \* is_match's local: the frames of the search
  spin,            \* the states of an epsilon cycle the search is caught in
  call             \* a call of a function of common.rs: arguments and result

vars == << pc, pattern, subject, ast, transitions, chars,
           loop_start_transitions, matches, offset, visit_counter,
           id_provider, stack, spin, call >>

-----------------------------------------------------------------------------
(* Bounds of the model.                                                    *)

\* Subjects are all the strings over SubjectAlphabet of at most this length.
MaxSubjectLen == 3

\* The lists of ranges handed to merge_overlapping_match_ranges have at most
\* MaxRanges ranges, with ends up to MaxRangeEnd; the line lengths handed to
\* range_end_adjust go up to MaxRangeEnd as well.
MaxRanges == 3
MaxRangeEnd == 4

-----------------------------------------------------------------------------
(* Characters.                                                             *)

Ascii ==
  << " ", "!", "\"", "#", "$", "%", "&", "'", "(", ")", "*", "+", ",", "-", ".", "/",
     "0", "1", "2", "3", "4", "5", "6", "7", "8", "9", ":", ";", "<", "=", ">", "?",
     "@", "A", "B", "C", "D", "E", "F", "G", "H", "I", "J", "K", "L", "M", "N", "O",
     "P", "Q", "R", "S", "T", "U", "V", "W", "X", "Y", "Z", "[", "\\", "]", "^", "_",
     "", "a", "b", "c", "d", "e", "f", "g", "h", "i", "j", "k", "l", "m", "n", "o",
     "p", "q", "r", "s", "t", "u", "v", "w", "x", "y", "z", "{", "|", "}", "~" >>

\* The Unicode scalar value of a character (Rust orders char by it).  Ascii
\* lists the printable ASCII characters from U+0020 on (the slot of U+0060,
\* which a TLA+ string cannot hold, is left empty); the one non-ASCII
\* character of the model is U+00E9.
CharCode(c) ==
  IF c = "é" THEN 233
  ELSE 31 + (CHOOSE i \in 1..Len(Ascii) : Ascii[i] = c)

\* char::len_utf8: the bytes the character takes in a String.
LenUtf8(c) ==
  IF CharCode(c) < 128 THEN 1 ELSE IF CharCode(c) < 2048 THEN 2 ELSE 3

\* char::is_ascii_digit
IsAsciiDigit(c) == CharCode(c) \in 48..57

\* char::is_ascii_alphanumeric
IsAsciiAlphanumeric(c) ==
  \/ CharCode(c) \in 48..57
  \/ CharCode(c) \in 65..90
  \/ CharCode(c) \in 97..122

RECURSIVE StringLen(_)
\* String::len: the length of a string in bytes, not in characters.
StringLen(s) ==
  IF s = << >> THEN 0 ELSE LenUtf8(Head(s)) + StringLen(Tail(s))

\* Option<T>
None == << >>
Some(v) == << v >>
IsSome(o) == o # << >>
Unwrap(o) == o[1]

Max(a, b) == IF a >= b THEN a ELSE b
Min(a, b) == IF a <= b THEN a ELSE b

\* slice[from..] with a 0-based from
SliceFrom(s, from) == SubSeq(s, from + 1, Len(s))

\* slice[..to] with a 0-based, exclusive to
SliceTo(s, to) == SubSeq(s, 1, to)

-----------------------------------------------------------------------------
(* Tokens (token.rs is not among the sources; the enum is read off its     *)
(* uses in common.rs, cond.rs and capturer.rs).                            *)

TokStart == [tok |-> "Start", c |-> ""]
TokEnd == [tok |-> "End", c |-> ""]
TokChar(c) == [tok |-> "Char", c |-> c]

\* str_to_tokens without the push of End.
StrToTokensNoEnd(s) ==
  << TokStart >> \o [i \in 1..Len(s) |-> TokChar(s[i])]

\* common.rs str_to_tokens: Char(c) per character, Start inserted at index 0,
\* End pushed last.
str_to_tokens(s) ==
  << TokStart >> \o [i \in 1..Len(s) |-> TokChar(s[i])] \o << TokEnd >>

-----------------------------------------------------------------------------
(* cond.rs: MatchResult, Literal, Cond.                                    *)

Match(step) == [matched |-> TRUE, step |-> step]
NoMatch == [matched |-> FALSE, step |-> 0]

LitChar(c) == [lit |-> "Char", start |-> c, end |-> c]
LitRange(s, e) == [lit |-> "Range", start |-> s, end |-> e]
LitNumeric == [lit |-> "Numeric", start |-> "", end |-> ""]
LitAlphanumeric == [lit |-> "Alphanumeric", start |-> "", end |-> ""]

\* Literal::is_match; token is Option<&Token>.
LiteralIsMatch(l, token) ==
  IF ~IsSome(token) \/ Unwrap(token).tok # "Char" THEN NoMatch
  ELSE LET c == Unwrap(token).c IN
    CASE l.lit = "Alphanumeric" ->
           IF IsAsciiAlphanumeric(c) \/ c = "_" THEN Match(1) ELSE NoMatch
      [] l.lit = "Char" ->
           IF c = l.start THEN Match(1) ELSE NoMatch
      [] l.lit = "Numeric" ->
           IF IsAsciiDigit(c) THEN Match(1) ELSE NoMatch
      [] l.lit = "Range" ->
           IF CharCode(c) >= CharCode(l.start) /\ CharCode(c) <= CharCode(l.end)
           THEN Match(1) ELSE NoMatch

CondChar(l) == [cond |-> "Char", lit |-> l]
CondAnyChar == [cond |-> "AnyChar"]
CondCharGroup(cs, neg) == [cond |-> "CharGroup", chars |-> cs, is_negated |-> neg]
CondStart == [cond |-> "Start"]
CondEnd == [cond |-> "End"]
CondNone == [cond |-> "None"]
CondCaptureRef(id) == [cond |-> "CaptureRef", id |-> id]

\* slice.first()
First(tokens) == IF tokens = << >> THEN None ELSE Some(tokens[1])

\* The CaptureRef arm without its test of tokens.len().
CaptureRefNoLenTest(capture, tokens) ==
  IF \E i \in 1..Min(Len(capture), Len(tokens)) :
       tokens[i].tok # "Char" \/ tokens[i].c # capture[i]
  THEN [matched |-> FALSE, step |-> 0]
  ELSE [matched |-> TRUE, step |-> StringLen(capture)]

\* The CaptureRef arm of Cond::is_match once the capture is found:
\* capture.len() is the String's length in bytes; zip stops at the shorter of
\* capture.chars() and tokens.
CaptureRefIsMatch(capture, tokens) ==
  IF Len(tokens) < StringLen(capture) THEN NoMatch
  ELSE IF \E i \in 1..Min(Len(capture), Len(tokens)) :
            tokens[i].tok # "Char" \/ tokens[i].c # capture[i]
       THEN NoMatch
       ELSE Match(StringLen(capture))

\* The CharGroup arm without its test of the kind of the token.
CharGroupAnyToken(chars_, is_negated, tokens) ==
  IF tokens = << >> THEN NoMatch
  ELSE IF (\E g \in chars_ : LiteralIsMatch(g, First(tokens)).matched)
          # is_negated
       THEN Match(1) ELSE NoMatch

\* The CharGroup arm of Cond::is_match: some literal of the class matches the
\* character, xor is_negated.
CharGroupIsMatch(chars_, is_negated, tokens) ==
  IF tokens # << >> /\ tokens[1].tok = "Char"
  THEN IF (\E g \in chars_ :
              LiteralIsMatch(g, Some(TokChar(tokens[1].c))).matched)
          # is_negated
       THEN Match(1) ELSE NoMatch
  ELSE NoMatch

\* A lookup that finds the empty string for an id without a capture.
CapturesGetOrEmpty(captures, id) ==
  IF id \in DOMAIN captures THEN Some(captures[id]) ELSE Some(<< >>)

\* captures.get(id) of the CaptureRef arm.
CapturesGet(captures, id) ==
  IF id \in DOMAIN captures THEN Some(captures[id]) ELSE None

\* Cond::is_match; captures is the capturer's map, a function on the ids set.
CondIsMatch(cond, tokens, captures) ==
  CASE cond.cond = "Char" -> LiteralIsMatch(cond.lit, First(tokens))
    [] cond.cond = "None" -> Match(0)
    [] cond.cond = "CharGroup" ->
         CharGroupIsMatch(cond.chars, cond.is_negated, tokens)
    [] cond.cond = "Start" ->
         IF tokens # << >> /\ tokens[1].tok = "Start" THEN Match(1) ELSE NoMatch
    [] cond.cond = "End" ->
         IF tokens # << >> /\ tokens[1].tok = "End" THEN Match(1) ELSE NoMatch
    [] cond.cond = "AnyChar" ->
         IF tokens # << >> /\ tokens[1].tok = "Char" THEN Match(1) ELSE NoMatch
    [] cond.cond = "CaptureRef" ->
         IF IsSome(CapturesGet(captures, cond.id))
         THEN CaptureRefIsMatch(Unwrap(CapturesGet(captures, cond.id)), tokens)
         ELSE NoMatch

-----------------------------------------------------------------------------
(* capturer.rs.  An operation yields the capturer it leaves and whether it *)
(* panicked (a failed assert!, an unwrap of None).                         *)

\* Capturer::new
CapturerNew == [captures |-> << >>, currents |-> << >>]

Contains(seq, x) == \E i \in 1..Len(seq) : seq[i] = x

\* HashMap::insert
MapInsert(m, k, v) == [x \in (DOMAIN m) \cup {k} |-> IF x = k THEN v ELSE m[x]]

\* start_capture keeping the buffer a group already has.
StartCaptureKeepsBuffer(cap, id) ==
  IF Contains(cap.currents, id)
  THEN [panic |-> TRUE, cap |-> cap]
  ELSE [panic |-> FALSE,
        cap |-> [captures |-> IF id \in DOMAIN cap.captures THEN cap.captures
                              ELSE MapInsert(cap.captures, id, << >>),
                 currents |-> Append(cap.currents, id)]]

\* Capturer::start_capture
start_capture(cap, id) ==
  IF Contains(cap.currents, id)
  THEN [panic |-> TRUE, cap |-> cap]
  ELSE [panic |-> FALSE,
        cap |-> [captures |-> MapInsert(cap.captures, id, << >>),
                 currents |-> Append(cap.currents, id)]]

\* Capturer::end_capture
end_capture(cap, id) ==
  IF cap.currents = << >> \/ cap.currents[Len(cap.currents)] # id
  THEN [panic |-> TRUE, cap |-> cap]
  ELSE [panic |-> FALSE,
        cap |-> [captures |-> cap.captures,
                 currents |-> SubSeq(cap.currents, 1, Len(cap.currents) - 1)]]

\* The characters of the Char tokens among tokens, in order.
RECURSIVE CharsOf(_)
CharsOf(tokens) ==
  IF tokens = << >> THEN << >>
  ELSE (IF tokens[1].tok = "Char" THEN << tokens[1].c >> ELSE << >>)
       \o CharsOf(Tail(tokens))

\* Capturer::push: every Char token is pushed onto the buffer of every id in
\* currents; get_mut(id).unwrap() panics on an id without a buffer.
push(cap, tokens) ==
  LET cs == CharsOf(tokens)
      open == {cap.currents[i] : i \in 1..Len(cap.currents)}
  IN IF cs # << >> /\ \E id \in open : id \notin DOMAIN cap.captures
     THEN [panic |-> TRUE, cap |-> cap]
     ELSE [panic |-> FALSE,
           cap |-> [captures |-> [id \in DOMAIN cap.captures |->
                                   IF id \in open
                                   THEN cap.captures[id] \o cs
                                   ELSE cap.captures[id]],
                    currents |-> cap.currents]]

-----------------------------------------------------------------------------
(* transition.rs and common.rs.                                            *)

START_STATE == 0
END_STATE == 1

InsStart(id) == [ins |-> "Start", id |-> id]
InsEnd(id) == [ins |-> "End", id |-> id]
InsNone == [ins |-> "None", id |-> 0]

\* Transition::new_full
new_full(from, to, cond, max_use, ins) ==
  [from_state |-> from, to_state |-> to, cond |-> cond,
   max_use |-> max_use, capture_group_ins |-> ins]

\* Transition::new_cond
new_cond(from, to, cond) == new_full(from, to, cond, None, InsNone)

\* Transition::new
new(from, to) == new_full(from, to, CondNone, None, InsNone)

-----------------------------------------------------------------------------
(* ast.rs: AstNode and generate().                                         *)

AstRoot(n) == [node |-> "Root", inner |-> n]
AstChar(l) == [node |-> "Char", lit |-> l]
AstSeq(items) == [node |-> "Seq", items |-> items]
AstAlt(options, id) == [node |-> "Alt", options |-> options, id |-> id]
AstRepeat(min, max, n) == [node |-> "Repeat", min |-> min, max |-> max, inner |-> n]
AstStart == [node |-> "Start"]
AstEnd == [node |-> "End"]
AstAnyChar == [node |-> "AnyChar"]
AstCharGroup(neg, cs) == [node |-> "CharGroup", is_negated |-> neg, chars |-> cs]
AstCaptureRef(id) == [node |-> "CaptureRef", id |-> id]

\* The result of __generate: the transitions, the id provider's next value
\* (Incrementer.v) and whether generation panicked.
GenOk(trs, v) == [panic |-> FALSE, trs |-> trs, v |-> v]
GenPanic == [panic |-> TRUE, trs |-> << >>, v |-> 0]

\* Whether the Repeat arm reaches panic!("Invalid repeat range").
InvalidRepeatRange(min, max) ==
  IsSome(max) /\ IsSome(min) /\ Unwrap(max) < Unwrap(min)

\* The Repeat arm's req_len, with min already unwrapped.
ReqLen(min, max) ==
  IF (IF IsSome(max) THEN Unwrap(max) >= min ELSE TRUE) /\ min > 1
  THEN min - 1 ELSE 0

\* An optional_len that leaves out the unrolled copies.
OptionalLenOfMax(max, req_len) ==
  IF IsSome(max) THEN Some(Unwrap(max) - 1) ELSE None

\* The Repeat arm's optional_len.
OptionalLen(max, req_len) ==
  IF IsSome(max) THEN Some(Unwrap(max) - req_len - 1) ELSE None

RECURSIVE Generate(_, _, _, _)
RECURSIVE GenerateSeq(_, _, _, _, _, _)
RECURSIVE GenerateAlt(_, _, _, _, _, _)
RECURSIVE GenerateMin(_, _, _, _, _, _)

\* The Seq arm's loop from item i on: from_id is the state the item starts
\* in, acc the transitions so far.
GenerateSeq(seq, i, from_id, end_state, v, acc) ==
  IF i > Len(seq) THEN GenOk(acc, v)
  ELSE LET last == (i = Len(seq))
           to_id == IF last THEN end_state ELSE v
           v1 == IF last THEN v ELSE v + 1
           g == Generate(seq[i], v1, from_id, to_id)
       IN IF g.panic THEN GenPanic
          ELSE GenerateSeq(seq, i + 1, to_id, end_state, g.v, acc \o g.trs)

\* The Alt arm's loop over the options from option i on.
GenerateAlt(options, i, inner_start, inner_end, v, acc) ==
  IF i > Len(options) THEN GenOk(acc, v)
  ELSE LET g == Generate(options[i], v, inner_start, inner_end)
       IN IF g.panic THEN GenPanic
          ELSE GenerateAlt(options, i + 1, inner_start, inner_end, g.v,
                           acc \o g.trs)

\* The Repeat arm's "minimum cycle" loop with n rounds left; the result
\* carries the inner_start and inner_end the loop ends with.
GenerateMin(inner, n, inner_start, inner_end, v, acc) ==
  IF n = 0
  THEN [panic |-> FALSE, trs |-> acc, v |-> v,
        inner_start |-> inner_start, inner_end |-> inner_end]
  ELSE LET g == Generate(inner, v, inner_start, inner_end)
       IN IF g.panic
          THEN [panic |-> TRUE, trs |-> << >>, v |-> 0,
                inner_start |-> 0, inner_end |-> 0]
          ELSE GenerateMin(inner, n - 1, inner_end, g.v, g.v + 1,
                           acc \o g.trs)

\* The Repeat arm without its first test.
ZeroRepeatNever(min, max) == FALSE

\* The Repeat arm's first test: max is Some(0).
ZeroRepeat(min, max) == IsSome(max) /\ Unwrap(max) = 0

\* The Alt arm's leaving edge without its End instruction.
AltLeaveNoEnd(inner_end, end_state, id) == new(inner_end, end_state)

\* The Alt arm's leaving edge inner_end -> end_state.
AltLeave(inner_end, end_state, id) ==
  new_full(inner_end, end_state, CondNone, None, InsEnd(id))

\* AstNode::__generate; v is the id provider's next value.
Generate(n, v, start_state, end_state) ==
  CASE n.node = "Root" -> Generate(n.inner, v, start_state, end_state)
    [] n.node = "Char" ->
         GenOk(<< new_cond(start_state, end_state, CondChar(n.lit)) >>, v)
    [] n.node = "Seq" ->
         IF n.items = << >>
         THEN GenOk(<< new(start_state, end_state) >>, v)
         ELSE GenerateSeq(n.items, 1, start_state, end_state, v, << >>)
    [] n.node = "Alt" ->
         LET inner_start == v
             inner_end == v + 1
             enter == new_full(start_state, inner_start, CondNone, None,
                               InsStart(n.id))
             g == GenerateAlt(n.options, 1, inner_start, inner_end, v + 2,
                              << enter >>)
         IN IF g.panic THEN GenPanic
            ELSE GenOk(Append(g.trs, AltLeave(inner_end, end_state, n.id)),
                       g.v)
    [] n.node = "Repeat" ->
         IF ZeroRepeat(n.min, n.max)
         THEN GenOk(<< new(start_state, end_state) >>, v)
         ELSE IF InvalidRepeatRange(n.min, n.max) THEN GenPanic
         ELSE
           LET min == IF IsSome(n.min) THEN Unwrap(n.min) ELSE 0
               req_len == ReqLen(min, n.max)
               optional_len == OptionalLen(n.max, req_len)
               inner_start == v
               inner_end == v + 1
               head == << new(start_state, inner_start) >>
                       \o (IF min = 0 THEN << new(start_state, end_state) >>
                           ELSE << >>)
               m == GenerateMin(n.inner, req_len, inner_start, inner_end,
                                v + 2, head)
           IN IF m.panic THEN GenPanic
              ELSE
                LET back == new_full(m.inner_end, m.inner_start, CondNone,
                                     optional_len, InsNone)
                    g == Generate(n.inner, m.v, m.inner_start, m.inner_end)
                IN IF g.panic THEN GenPanic
                   ELSE GenOk((Append(m.trs, back) \o g.trs)
                              \o << new(m.inner_end, end_state) >>, g.v)
    [] n.node = "Start" ->
         GenOk(<< new_cond(start_state, end_state, CondStart) >>, v)
    [] n.node = "End" ->
         GenOk(<< new_cond(start_state, end_state, CondEnd) >>, v)
    [] n.node = "AnyChar" ->
         GenOk(<< new_cond(start_state, end_state, CondAnyChar) >>, v)
    [] n.node = "CharGroup" ->
         GenOk(<< new_cond(start_state, end_state,
                           CondCharGroup(n.chars, n.is_negated)) >>, v)
    [] n.node = "CaptureRef" ->
         GenOk(<< new_cond(start_state, end_state, CondCaptureRef(n.id)) >>, v)

\* generate with an id provider that starts one state later.
GenerateFromLater(n) == Generate(n, END_STATE + 2, START_STATE, END_STATE)

\* AstNode::generate: the id provider starts at END_STATE + 1.
generate(n) == Generate(n, END_STATE + 1, START_STATE, END_STATE)

-----------------------------------------------------------------------------
(* reader.rs and parser.rs.  The reader is its remaining stream.  A parse  *)
(* function yields Ok (the node, the stream left and the next capture      *)
(* group id), Err (a returned Error) or Panic (the process aborts).        *)

POk(node, rest, cid) == [tag |-> "Ok", node |-> node, rest |-> rest, cid |-> cid]
PErr(msg) == [tag |-> "Err", msg |-> msg]
PPanic(msg) == [tag |-> "Panic", msg |-> msg]

\* Reader::peek
peek(stream) == First(stream)

\* Reader::parse_while: the length of the slice it returns; pred is the set
\* of the elements the predicate holds of.  The loop body ends in an
\* unconditional break, so only stream[0] is ever tested.
parse_while(stream, pred) ==
  IF stream # << >> /\ stream[1] \in pred THEN 1 ELSE 0

\* The characters |c| c.is_ascii_digit() holds of.
AsciiDigits == {"0", "1", "2", "3", "4", "5", "6", "7", "8", "9"}

\* u64::from_str_radix(raw, 10) on a string of ASCII digits.
RECURSIVE FromStrRadix(_)
FromStrRadix(raw) ==
  IF raw = << >> THEN 0
  ELSE 10 * FromStrRadix(SubSeq(raw, 1, Len(raw) - 1))
       + (CharCode(raw[Len(raw)]) - 48)

\* Reader::assert_pop: indexing stream[0] panics on an empty stream.
assert_pop(stream, expected) ==
  IF stream = << >> THEN PPanic("index out of bounds")
  ELSE IF stream[1] = expected THEN POk(stream[1], Tail(stream), 0)
  ELSE PErr("Unexpected token")

\* Parser::parse_number: Ok carries the number in node.
parse_number(stream) ==
  IF parse_while(stream, AsciiDigits) = 0
  THEN PErr("cannot parse integer from empty string")
  ELSE POk(FromStrRadix(SliceTo(stream, parse_while(stream, AsciiDigits))),
           SliceFrom(stream, parse_while(stream, AsciiDigits)), 0)

\* The `{` arm of check_modifier, last step: reader.assert_pop('}')? and the
\* Repeat node.
braces_close(close, min, max, node, cid) ==
  IF close.tag # "Ok" THEN close
  ELSE POk(AstRepeat(min, max, node), close.rest, cid)

\* The `{` arm of check_modifier once `n,` is read and no `}` follows:
\* max is Some(parse_number(reader)?).
braces_max(n2, min, node, cid) ==
  IF n2.tag # "Ok" THEN n2
  ELSE braces_close(assert_pop(n2.rest, "}"), min, Some(n2.node), node, cid)

\* The `{` arm of check_modifier once min is read: max is None for `n,}`,
\* a second number for `n,m` and min itself without a comma.
braces_min(n1, node, cid) ==
  IF n1.tag # "Ok" THEN n1
  ELSE IF peek(n1.rest) = Some(",")
       THEN IF peek(Tail(n1.rest)) = Some("}")
            THEN braces_close(assert_pop(Tail(n1.rest), "}"),
                              Some(n1.node), None, node, cid)
            ELSE braces_max(parse_number(Tail(n1.rest)),
                            Some(n1.node), node, cid)
       ELSE braces_close(assert_pop(n1.rest, "}"),
                         Some(n1.node), Some(n1.node), node, cid)

\* Parser::check_modifier
check_modifier(stream, node, cid) ==
  CASE peek(stream) = Some("*") ->
         POk(AstRepeat(None, None, node), Tail(stream), cid)
    [] peek(stream) = Some("?") ->
         POk(AstRepeat(None, Some(1), node), Tail(stream), cid)
    [] peek(stream) = Some("+") ->
         POk(AstRepeat(Some(1), None, node), Tail(stream), cid)
    [] peek(stream) = Some("{") ->
         braces_min(parse_number(Tail(stream)), node, cid)
    [] OTHER -> POk(node, stream, cid)

\* The loop of the `[` arm of parse_unit: Ok carries the set of literals and
\* leaves the stream at the closing bracket.  The pop after a `-` indexes
\* stream[0] and panics on an empty stream.
RECURSIVE parse_class_items(_, _)
parse_class_items(stream, cs) ==
  CASE peek(stream) = Some("]") -> POk(cs, stream, 0)
    [] peek(stream) = None -> PErr("Expected closing brace. Got empty.")
    [] OTHER ->
         IF peek(Tail(stream)) = Some("-")
         THEN IF Tail(Tail(stream)) = << >>
              THEN PPanic("index out of bounds")
              ELSE parse_class_items(
                     Tail(Tail(Tail(stream))),
                     cs \cup {LitRange(stream[1], stream[3])})
         ELSE parse_class_items(Tail(stream), cs \cup {LitChar(stream[1])})

\* class_atom with the negation dropped.
ClassAtomNotNegated(items, is_negated, cid) ==
  IF items.tag # "Ok" THEN items
  ELSE POk(AstCharGroup(FALSE, items.node), Tail(items.rest), cid)

\* The `[` arm of parse_unit after the items: reader.assert_pop(']') and the
\* CharGroup node.
class_atom(items, is_negated, cid) ==
  IF items.tag # "Ok" THEN items
  ELSE POk(AstCharGroup(is_negated, items.node), Tail(items.rest), cid)

\* The backreference arm's test: the range pattern '1'..'9' excludes '9'.
IsBackrefDigit(c) == CharCode(c) >= 49 /\ CharCode(c) < 57

\* The backreference arm of parse_unit, with len the length parse_while
\* returned.
backref_atom(stream, len, cid) ==
  POk(AstCaptureRef(FromStrRadix(SliceTo(stream, len))),
      SliceFrom(stream, len), cid)

\* escape_atom with every escaped letter taken as a class of characters.
EscapeAtomLettersAreClasses(stream, cid) ==
  IF stream = << >> THEN PPanic("Missing char after \\")
  ELSE CASE stream[1] = "d" -> POk(AstChar(LitNumeric), Tail(stream), cid)
         [] IsAsciiAlphanumeric(stream[1]) /\ ~IsAsciiDigit(stream[1]) ->
              POk(AstChar(LitAlphanumeric), Tail(stream), cid)
         [] IsBackrefDigit(stream[1]) ->
              backref_atom(stream, parse_while(stream, AsciiDigits), cid)
         [] OTHER -> POk(AstChar(LitChar(stream[1])), Tail(stream), cid)

\* The `\` arm of parse_unit after the backslash is popped, up to the call
\* of check_modifier.
escape_atom(stream, cid) ==
  IF stream = << >> THEN PPanic("Missing char after \\")
  ELSE CASE stream[1] = "d" -> POk(AstChar(LitNumeric), Tail(stream), cid)
         [] stream[1] = "w" -> POk(AstChar(LitAlphanumeric), Tail(stream), cid)
         [] IsBackrefDigit(stream[1]) ->
              backref_atom(stream, parse_while(stream, AsciiDigits), cid)
         [] OTHER -> POk(AstChar(LitChar(stream[1])), Tail(stream), cid)

\* group_atom with the id taken at the closing parenthesis.
GroupAtomIdAtClose(o, capture_id) ==
  IF o.tag # "Ok" THEN o
  ELSE POk(AstAlt(o.node, o.cid), Tail(o.rest), o.cid)

\* The `(` arm of parse_unit after the options: reader.assert_pop(')') and
\* the Alt node with the id taken at the opening parenthesis.
group_atom(o, capture_id) ==
  IF o.tag # "Ok" THEN o
  ELSE POk(AstAlt(o.node, capture_id), Tail(o.rest), o.cid)

\* The last step of every arm of parse_unit: check_modifier on the node the
\* arm made.
with_modifier(a) ==
  IF a.tag # "Ok" THEN a ELSE check_modifier(a.rest, a.node, a.cid)

RECURSIVE parse_unit(_, _)
RECURSIVE parse_sequence(_, _, _, _)
RECURSIVE parse_options(_, _, _)
RECURSIVE options_next(_, _)
RECURSIVE sequence_next(_, _, _)

\* An until predicate that ends the top-level sequence too at `)` and `|`.
UntilPredOfGroup(in_group, stream) ==
  peek(stream) \in {Some(")"), None, Some("|")}

\* The until predicates parse_sequence is called with: the whole pattern
\* ends at the end of the input, an alternative at `)`, `|` or the end.
until_pred(in_group, stream) ==
  IF in_group
  THEN peek(stream) \in {Some(")"), None, Some("|")}
  ELSE peek(stream) = None

\* parse_sequence's loop body after parse_unit(...)?.
sequence_next(u, in_group, items) ==
  IF u.tag # "Ok" THEN u
  ELSE parse_sequence(u.rest, u.cid, in_group, Append(items, u.node))

\* Parser::parse_sequence: items are the units parsed so far.
parse_sequence(stream, cid, in_group, items) ==
  IF until_pred(in_group, stream) THEN POk(AstSeq(items), stream, cid)
  ELSE sequence_next(parse_unit(stream, cid), in_group, items)

\* The loop body of the `(` arm after parse_sequence(...)?: the alternative
\* is pushed and the next character decides.
options_next(alt, options) ==
  IF alt.tag # "Ok" THEN alt
  ELSE CASE peek(alt.rest) = Some(")") ->
              POk(Append(options, alt.node), alt.rest, alt.cid)
         [] peek(alt.rest) = Some("|") ->
              parse_options(Tail(alt.rest), alt.cid,
                            Append(options, alt.node))
         [] OTHER -> PErr("Invalid ending of paren group")

\* The loop of the `(` arm of parse_unit: Ok carries the options and leaves
\* the stream at the closing parenthesis.
parse_options(stream, cid, options) ==
  options_next(parse_sequence(stream, cid, TRUE, << >>), options)

\* Parser::parse_unit
parse_unit(stream, cid) ==
  IF stream = << >> THEN PErr("No more input to read")
  ELSE with_modifier(
    CASE stream[1] = "(" ->
           group_atom(parse_options(Tail(stream), cid + 1, << >>), cid)
      [] stream[1] = "[" ->
           IF peek(Tail(stream)) = Some("^")
           THEN class_atom(parse_class_items(Tail(Tail(stream)), {}), TRUE, cid)
           ELSE class_atom(parse_class_items(Tail(stream), {}), FALSE, cid)
      [] stream[1] = "^" -> POk(AstStart, Tail(stream), cid)
      [] stream[1] = "$" -> POk(AstEnd, Tail(stream), cid)
      [] stream[1] = "." -> POk(AstAnyChar, Tail(stream), cid)
      [] stream[1] = "\\" -> escape_atom(Tail(stream), cid)
      [] OTHER -> POk(AstChar(LitChar(stream[1])), Tail(stream), cid))

\* The Root node around the parsed sequence.
root_of(seq_node) ==
  IF seq_node.tag # "Ok" THEN seq_node
  ELSE POk(AstRoot(seq_node.node), seq_node.rest, seq_node.cid)

\* Parser::parse (through parse_regex_str): the capture group ids start at 1.
parse_regex_str(s) == root_of(parse_sequence(s, 1, FALSE, << >>))

-----------------------------------------------------------------------------
(* evaluator.rs.                                                           *)

\* Evaluator::get_available_transitions: the transitions leaving a state, in
\* list order.
get_available_transitions(trs, start_state) ==
  SelectSeq(trs, LAMBDA t : t.from_state = start_state)

\* Evaluator::get_loop_start_transitions
get_loop_start_transitions(trs) ==
  LET loop_start_states ==
        {trs[i].from_state : i \in {j \in 1..Len(trs) : IsSome(trs[j].max_use)}}
  IN {<< trs[i].from_state, trs[i].to_state >> :
        i \in {j \in 1..Len(trs) :
                 ~IsSome(trs[j].max_use)
                 /\ trs[j].to_state \in loop_start_states}}

\* visit_counter.get(&state).unwrap_or(&0)
CurrentUse(vc, state) == IF state \in DOMAIN vc THEN vc[state] ELSE 0

\* A frame of the search stack.  trail and walk are not part of the program:
\* trail lists the configurations (state, capturer) of the walk to this
\* frame since the walk last consumed a token or crossed an edge with a
\* max_use; walk lists the transitions taken from the first frame of the
\* search to this one.
Frame(stream, loop_id, state, capturer, trail, walk) ==
  [stream |-> stream, loop_id |-> loop_id, state |-> state,
   capturer |-> capturer, trail |-> trail, walk |-> walk]

Config(f) == [state |-> f.state, capturer |-> f.capturer]

\* The capture instruction of a taken transition applied to the capturer.
ApplyInstruction(cap, ins) ==
  CASE ins.ins = "Start" -> start_capture(cap, ins.id)
    [] ins.ins = "End" -> end_capture(cap, ins.id)
    [] OTHER -> [panic |-> FALSE, cap |-> cap]

\* The test letting a transition through once more than its max_use.
BlockedAbove(tr, vc, current_state) ==
  IsSome(tr.max_use) /\ CurrentUse(vc, current_state) > Unwrap(tr.max_use)

\* The "block if already reached max use" test of the loop body.
Blocked(tr, vc, current_state) ==
  IsSome(tr.max_use) /\ CurrentUse(vc, current_state) >= Unwrap(tr.max_use)

\* The loop body with one capturer for the whole search in place of the
\* clone: it mutates the capturer last left on the stack.
ExpandOneSharedCapturer(f, tr, acc, loop_starts) ==
  LET is_start == << tr.from_state, tr.to_state >> \in loop_starts
      loop_id == IF is_start THEN acc.id_provider ELSE f.loop_id
      idp == IF is_start THEN acc.id_provider + 1 ELSE acc.id_provider
      res == CondIsMatch(tr.cond, f.stream, f.capturer.captures)
  IN IF Blocked(tr, acc.visit_counter, f.state)
     THEN [acc EXCEPT !.id_provider = idp]
     ELSE IF ~res.matched THEN [acc EXCEPT !.id_provider = idp]
     ELSE
       LET vc == IF IsSome(tr.max_use)
                 THEN MapInsert(acc.visit_counter, f.state,
                                CurrentUse(acc.visit_counter, f.state) + 1)
                 ELSE acc.visit_counter
           oob == res.step > Len(f.stream)
           pushed == push(IF acc.stack = << >> THEN f.capturer
                           ELSE acc.stack[Len(acc.stack)].capturer,
                           SliceTo(f.stream, res.step))
           done == ApplyInstruction(pushed.cap, tr.capture_group_ins)
           trail == IF res.step > 0 \/ IsSome(tr.max_use) THEN << >>
                    ELSE Append(f.trail, Config(f))
           why == CASE oob -> "panic_slice"
                    [] ~oob /\ pushed.panic -> "panic_push"
                    [] ~oob /\ ~pushed.panic /\ done.panic ->
                         IF tr.capture_group_ins.ins = "Start"
                         THEN "panic_start_capture" ELSE "panic_end_capture"
                    [] OTHER -> ""
       IN IF why # ""
          THEN [acc EXCEPT !.id_provider = idp, !.visit_counter = vc,
                           !.panic = why]
          ELSE [stack |-> Append(acc.stack,
                                 Frame(SliceFrom(f.stream, res.step), loop_id,
                                       tr.to_state, done.cap, trail,
                                       Append(f.walk, tr))),
                visit_counter |-> vc, id_provider |-> idp, panic |-> ""]

\* One round of is_match's `for tr in available_transitions.iter().rev()`
\* for the popped frame f.  acc holds the locals the loop updates: the stack,
\* visit_counter, the id provider, and the panic that ended the loop ("" for
\* none): "panic_slice" for stream[..step] out of range, "panic_push" for the
\* unwrap in Capturer::push, "panic_start_capture" and "panic_end_capture"
\* for the two assertions.
ExpandOne(f, tr, acc, loop_starts) ==
  LET is_start == << tr.from_state, tr.to_state >> \in loop_starts
      loop_id == IF is_start THEN acc.id_provider ELSE f.loop_id
      idp == IF is_start THEN acc.id_provider + 1 ELSE acc.id_provider
      res == CondIsMatch(tr.cond, f.stream, f.capturer.captures)
  IN IF Blocked(tr, acc.visit_counter, f.state)
     THEN [acc EXCEPT !.id_provider = idp]
     ELSE IF ~res.matched THEN [acc EXCEPT !.id_provider = idp]
     ELSE
       LET vc == IF IsSome(tr.max_use)
                 THEN MapInsert(acc.visit_counter, f.state,
                                CurrentUse(acc.visit_counter, f.state) + 1)
                 ELSE acc.visit_counter
           oob == res.step > Len(f.stream)
           pushed == push(f.capturer, SliceTo(f.stream, res.step))
           done == ApplyInstruction(pushed.cap, tr.capture_group_ins)
           trail == IF res.step > 0 \/ IsSome(tr.max_use) THEN << >>
                    ELSE Append(f.trail, Config(f))
           why == CASE oob -> "panic_slice"
                    [] ~oob /\ pushed.panic -> "panic_push"
                    [] ~oob /\ ~pushed.panic /\ done.panic ->
                         IF tr.capture_group_ins.ins = "Start"
                         THEN "panic_start_capture" ELSE "panic_end_capture"
                    [] OTHER -> ""
       IN IF why # ""
          THEN [acc EXCEPT !.id_provider = idp, !.visit_counter = vc,
                           !.panic = why]
          ELSE [stack |-> Append(acc.stack,
                                 Frame(SliceFrom(f.stream, res.step), loop_id,
                                       tr.to_state, done.cap, trail,
                                       Append(f.walk, tr))),
                visit_counter |-> vc, id_provider |-> idp, panic |-> ""]

\* The loop trying only the transition listed first (the last of avail).
ExpandFirstOnly(f, avail, i, acc, loop_starts) ==
  IF avail = << >> THEN acc
  ELSE ExpandOne(f, avail[Len(avail)], acc, loop_starts)

\* The whole `for` loop over avail (already reversed) from index i on; a
\* panic ends it.
RECURSIVE ExpandAll(_, _, _, _, _)
ExpandAll(f, avail, i, acc, loop_starts) ==
  IF i > Len(avail) \/ acc.panic # "" THEN acc
  ELSE ExpandAll(f, avail, i + 1,
                 ExpandOne(f, avail[i], acc, loop_starts), loop_starts)

Reverse(seq) == [i \in 1..Len(seq) |-> seq[Len(seq) + 1 - i]]

Top(stk) == stk[Len(stk)]
Pop(stk) == SubSeq(stk, 1, Len(stk) - 1)

\* Whether the frame's configuration already lies on its own trail: the walk
\* has come back to a state, with the same capturer and the same stream,
\* over edges that consume nothing and carry no max_use.  The edges taken
\* from the earlier occurrence match again, and the subtrees searched before
\* them are searched again under counters that are no smaller, so the search
\* comes back here over and over and never ends.
Revisits(f) == Contains(f.trail, Config(f))

\* The states of the cycle the frame closes.
CycleOf(f) ==
  LET k == CHOOSE i \in 1..Len(f.trail) : f.trail[i] = Config(f)
  IN [i \in 1..(Len(f.trail) - k + 1) |-> f.trail[k + i - 1].state]

-----------------------------------------------------------------------------
(* common.rs: the functions on match ranges.  A range is a pair            *)
(* << start, end >>; a function on usize yields its value and whether a    *)
(* subtraction went below zero on the way (a panic in a debug build, a     *)
(* wrapped value in a release build).                                      *)

Returned(v) == [value |-> v, overflow |-> FALSE]
Overflowed == [value |-> 0, overflow |-> TRUE]

\* a - b on usize.
UsizeSub(a, b) == IF a >= b THEN Returned(a - b) ELSE Overflowed

\* The order of (usize, usize): by the first component, then the second.
TupleLess(a, b) == a[1] < b[1] \/ (a[1] = b[1] /\ a[2] < b[2])

\* A sorted list with one more element put in its place.
RECURSIVE SortedInsert(_, _)
SortedInsert(sorted, r) ==
  IF sorted = << >> THEN << r >>
  ELSE IF TupleLess(r, sorted[1]) THEN << r >> \o sorted
  ELSE << sorted[1] >> \o SortedInsert(Tail(sorted), r)

\* The list left as it is.
Unsorted(ranges) == ranges

\* Vec::sort
RECURSIVE sort(_)
sort(ranges) ==
  IF ranges = << >> THEN << >>
  ELSE SortedInsert(sort(Tail(ranges)), ranges[1])

\* The body of the loop of merge_overlapping_match_ranges on one range.
MergeStep(out, r) ==
  IF out = << >> \/ out[Len(out)][2] < r[1]
  THEN Append(out, r)
  ELSE [out EXCEPT ![Len(out)] = << out[Len(out)][1], r[2] >>]

\* The loop of merge_overlapping_match_ranges from the i-th sorted range on.
RECURSIVE MergeLoop(_, _, _)
MergeLoop(ranges, i, out) ==
  IF i > Len(ranges) THEN out
  ELSE MergeLoop(ranges, i + 1, MergeStep(out, ranges[i]))

merge_overlapping_match_ranges(ranges) == MergeLoop(sort(ranges), 1, << >>)

\* range_start_adjust without the compensation for the Start token.
StartUnadjusted(start) == Returned(start)

range_start_adjust(start) ==
  IF start = 0 THEN Returned(0) ELSE UsizeSub(start, 1)

\* range_end_adjust without its first test.
EndAdjustUnclamped(end, len) ==
  IF end >= 1 THEN UsizeSub(end, 1) ELSE Returned(end)

range_end_adjust(end, len) ==
  IF end > len THEN Returned(len)
  ELSE IF end >= 1 THEN UsizeSub(end, 1)
  ELSE Returned(end)

\* No function of common.rs has been called.
NoCall == [fn |-> "none", args |-> << >>, ret |-> << >>]

-----------------------------------------------------------------------------
(* The run: one pattern is parsed and compiled, and the evaluator built    *)
(* from it is run on the tokens of one subject, as main.rs does per line.  *)

\* Patterns of literals, classes, groups and the quantifiers *, + and ?.
PlainPatterns ==
  { << "a" >>,                                                  \* a
    << "a", "b" >>,                                             \* ab
    << "(", "a", "|", "b", ")" >>,                              \* (a|b)
    << "(", "a", "|", "a", "b", ")", "b" >>,                    \* (a|ab)b
    << "a", "*" >>,                                             \* a*
    << "a", "+", "b" >>,                                        \* a+b
    << "(", "a", "b", ")", "+" >>,                              \* (ab)+
    << "." >>,                                                  \* .
    << "[", "a", "b", "]" >>,                                   \* [ab]
    << "[", "^", "a", "]", "b" >>,                              \* [^a]b
    << "a", "?", "b" >>,                                        \* a?b
    << "(", "a", "|", "b", ")", "*", "b" >>,                    \* (a|b)*b
    << "(", "(", "a", ")", "|", "b", ")", "a" >> }              \* ((a)|b)a

\* Patterns with a quantifier in braces.
BoundedPatterns ==
  { << "a", "{", "2", "}" >>,                                   \* a{2}
    << "a", "{", "1", ",", "2", "}", "b" >>,                    \* a{1,2}b
    << "a", "{", "2", ",", "}" >>,                              \* a{2,}
    << "(", "a", "|", "b", ")", "{", "2", "}" >>,               \* (a|b){2}
    << "a", "{", "0", ",", "1", "}", "b" >>,                    \* a{0,1}b
    << "a", "{", "0", ",", "2", "}" >>,                         \* a{0,2}
    << "(", "a", "b", ")", "{", "1", ",", "2", "}" >>,          \* (ab){1,2}
    << "(", "|", "a", ")", "a", "{", "1", ",", "2", "}" >>,     \* (|a)a{1,2}
    << "^", "(", "|", "a", ")", "a", "{", "1", ",", "2", "}", "$" >>,  \* ^(|a)a{1,2}$
    << "(", "a", "|", "a", "b", ")", "b", "{", "1", ",", "2", "}", "$" >>,  \* (a|ab)b{1,2}$
    << "^", "(", "a", "{", "1", ",", "2", "}", "b", ")", "+", "$" >>,  \* ^(a{1,2}b)+$
    << "^", "a", "{", "1", ",", "2", "}", "$" >>,               \* ^a{1,2}$
    << "^", "a", "{", "2", "}", "$" >>,                         \* ^a{2}$
    << "(", "(", "|", "a", ")", "a", "{", "1", ",", "2", "}", "b", "|", "a", ")" >> }  \* ((|a)a{1,2}b|a)

\* The patterns P from which ^P$, ^P and P$ are built.
AnchorBase ==
  { << "a" >>,                                                  \* a
    << "a", "b" >>,                                             \* ab
    << "a", "*" >>,                                             \* a*
    << "(", "a", "|", "b", ")" >>,                              \* (a|b)
    << "a", "+", "b" >>,                                        \* a+b
    << "." >>,                                                  \* .
    << "[", "^", "a", "]" >>,                                   \* [^a]
    << "a", "{", "2", "}" >>,                                   \* a{2}
    << "a", "{", "1", ",", "2", "}" >>,                         \* a{1,2}
    << "(", "|", "a", ")", "a", "{", "1", ",", "2", "}" >>,     \* (|a)a{1,2}
    << "(", "|", "a", ")", "a", "{", "1", ",", "2", "}", "b" >>,  \* (|a)a{1,2}b
    << "(", "b", "|", "b", "a", ")", "a", "{", "1", ",", "2", "}" >> }  \* (b|ba)a{1,2}

\* The patterns P of the backreference patterns (P)Q\1.
BackrefHeads ==
  { << "a" >>,                                                  \* a
    << "a", "|", "b" >>,                                        \* a|b
    << "a", "*" >>,                                             \* a*
    << "a", "|", "a", "b" >>,                                   \* a|ab
    << "é" >>,                                                  \* é
    << "a", "b" >>,                                             \* ab
    << "é", "é" >> }                                            \* éé

\* The patterns Q of the backreference patterns (P)Q\1.
BackrefMiddles ==
  { << >>,                                                      \* (empty)
    << "b" >>,                                                  \* b
    << "$" >> }                                                 \* $

\* The patterns X of the zero-repeat patterns X{0}.
ZeroRepeatBodies ==
  { << "a" >>,                                                  \* a
    << "(", "a", "b", ")" >>,                                   \* (ab)
    << "." >>,                                                  \* .
    << "[", "a", "b", "]" >>,                                   \* [ab]
    << "(", "a", "|", "b", ")" >>,                              \* (a|b)
    << "\\", "d" >> }                                           \* \d

\* Patterns with an unbounded quantifier on a group that can match the
\* empty string.
EmptyLoopPatterns ==
  { << "(", ")", "*" >>,                                        \* ()*
    << "(", "a", "*", ")", "*" >>,                              \* (a*)*
    << "(", "a", "?", ")", "+" >>,                              \* (a?)+
    << "(", "|", "a", ")", "+", "b" >>,                         \* (|a)+b
    << "(", "a", "*", ")", "{", "1", ",", "}" >> }              \* (a*){1,}

\* Malformed patterns, one or more per class of parse error.
MalformedPatterns ==
  { << "(" >>,                                                  \* (
    << "(", "a" >>,                                             \* (a
    << "(", "a", "|", "b" >>,                                   \* (a|b
    << "[" >>,                                                  \* [
    << "[", "a" >>,                                             \* [a
    << "[", "^", "a" >>,                                        \* [^a
    << "[", "a", "-" >>,                                        \* [a-
    << "a", "{" >>,                                             \* a{
    << "a", "{", "}" >>,                                        \* a{}
    << "a", "{", ",", "2", "}" >>,                              \* a{,2}
    << "a", "{", "x", "}" >>,                                   \* a{x}
    << "a", "{", "1", "x", "}" >>,                              \* a{1x}
    << "a", "{", "1", ",", "x", "}" >>,                         \* a{1,x}
    << "a", "{", "1" >>,                                        \* a{1
    << "a", "{", "1", "," >>,                                   \* a{1,
    << "a", "{", "1", ",", "2" >>,                              \* a{1,2
    << "\\" >>,                                                 \* \
    << "a", "\\" >> }                                           \* a\

\* Patterns whose quantifier {n,m} has m < n.
InvalidRangePatterns ==
  { << "a", "{", "2", ",", "1", "}" >>,                         \* a{2,1}
    << "a", "{", "3", ",", "1", "}" >>,                         \* a{3,1}
    << "(", "a", ")", "{", "3", ",", "2", "}" >>,               \* (a){3,2}
    << "a", "{", "1", ",", "0", "}" >>,                         \* a{1,0}
    << "a", "{", "2", ",", "0", "}" >>,                         \* a{2,0}
    << "(", "a", "b", ")", "{", "2", ",", "0", "}" >> }         \* (ab){2,0}

\* Subjects beyond the strings over SubjectAlphabet.
ExtraSubjects ==
  { << "é" >>,                                                  \* é
    << "é", "é" >>,                                             \* éé
    << "é", "a" >>,                                             \* éa
    << "é", "é", "a" >>,                                        \* ééa
    << "é", "é", "é", "é" >>,                                   \* éééé
    << "a", "a", "a", "b" >>,                                   \* aaab
    << "b", "a", "a", "a" >>,                                   \* baaa
    << "a", "a", "b", "b" >>,                                   \* aabb
    << "a", "a", "b", "b", "a" >>,                              \* aabba
    << "a", "a", "b", "a", "a", "b" >>,                         \* aabaab
    << "a", "|", "b" >>,                                        \* a|b
    << "b", "a", "|", "b", ")" >>,                              \* ba|b)
    << "a", ")" >> }                                            \* a)


\* ^P$, ^P and P$
Anchored(P) == (<< "^" >> \o P) \o << "$" >>
PrefixAnchored(P) == << "^" >> \o P
SuffixAnchored(P) == P \o << "$" >>

\* (P)Q\1
Backref(P, Q) == ((<< "(" >> \o P) \o << ")" >>) \o (Q \o << "\\", "1" >>)

\* X{0}
ZeroRepeated(X) == X \o << "{", "0", "}" >>

AnchoredPatterns == {Anchored(P) : P \in AnchorBase}
PrefixPatterns == {PrefixAnchored(P) : P \in AnchorBase}
SuffixPatterns == {SuffixAnchored(P) : P \in AnchorBase}
BackrefPatterns == {Backref(P, Q) : P \in BackrefHeads, Q \in BackrefMiddles}
ZeroRepeatPatterns == {ZeroRepeated(X) : X \in ZeroRepeatBodies}

\* The atoms A of the quantifier patterns A q.
QuantifierAtoms ==
  { << "a" >>,                                                  \* a
    << "(", "a", "b", ")" >>,                                   \* (ab)
    << "[", "a", "b", "]" >> }                                  \* [ab]

\* The quantifiers q of the quantifier patterns A q: the kind of quantifier
\* and the digits of its numbers n and m.
QuantifierCases ==
  { [kind |-> "*", n |-> << >>, m |-> << >>],                   \* *
    [kind |-> "?", n |-> << >>, m |-> << >>],                   \* ?
    [kind |-> "+", n |-> << >>, m |-> << >>],                   \* +
    [kind |-> "{n}", n |-> << "2" >>, m |-> << >>],             \* {2}
    [kind |-> "{n}", n |-> << "1", "0" >>, m |-> << >>],        \* {10}
    [kind |-> "{n,}", n |-> << "2" >>, m |-> << >>],            \* {2,}
    [kind |-> "{n,}", n |-> << "1", "0" >>, m |-> << >>],       \* {10,}
    [kind |-> "{n,m}", n |-> << "1" >>, m |-> << "2" >>],       \* {1,2}
    [kind |-> "{n,m}", n |-> << "0" >>, m |-> << "1" >>],       \* {0,1}
    [kind |-> "{n,m}", n |-> << "2" >>, m |-> << "1", "2" >>] } \* {2,12}

\* The text of a quantifier.
QuantifierText(q) ==
  CASE q.kind = "{n}" -> (<< "{" >> \o q.n) \o << "}" >>
    [] q.kind = "{n,}" -> (<< "{" >> \o q.n) \o << ",", "}" >>
    [] q.kind = "{n,m}" -> (((<< "{" >> \o q.n) \o << "," >>) \o q.m) \o << "}" >>
    [] OTHER -> << q.kind >>

Quantified(A, q) == A \o QuantifierText(q)
QuantifierPatterns ==
  {Quantified(A, q) : A \in QuantifierAtoms, q \in QuantifierCases}

\* The patterns H and the group numbers d of the patterns H\d.
BackrefNumberHeads ==
  { << >>,                                                      \* (empty)
    << "(", "a", ")" >>,                                        \* (a)
    << "(", "a", ")", "(", "b", ")" >> }                        \* (a)(b)
BackrefNumbers ==
  { << "1" >>, << "2" >>, << "8" >>, << "9" >>,                 \* 1 2 8 9
    << "1", "0" >>, << "1", "2" >>, << "9", "1" >> }            \* 10 12 91

BackrefNumbered(H, d) == (H \o << "\\" >>) \o d
BackrefNumberPatterns ==
  {BackrefNumbered(H, d) : H \in BackrefNumberHeads, d \in BackrefNumbers}

\* Patterns with nested and neighbouring groups.
GroupPatterns ==
  { << "(", "(", "a", ")", "(", "b", ")", ")", "(", "a", ")" >>,  \* ((a)(b))(a)
    << "(", "a", "(", "b", "(", "a", ")", ")", ")" >>,          \* (a(b(a)))
    << "(", "(", "a", ")", "|", "(", "b", ")", ")", "a" >>,     \* ((a)|(b))a
    << "(", "(", "a", ")", ")", "*", "(", "b", ")" >>,          \* ((a))*(b)
    << "(", "a", ")", "{", "2", "}", "(", "b", ")" >>,          \* (a){2}(b)
    << "(", "^", "(", "a", "|", "b", ")", "*", "$", ")" >> }    \* (^(a|b)*$)

\* Patterns of literals, classes, sequences and alternation groups, some
\* under an unbounded quantifier, in which an earlier alternative matches
\* where the rest of the pattern then fails.
BacktrackPatterns ==
  { << "(", "a", "a", "b", "|", "a", "a", ")", "[", "a", "b", "]", "{", "2", ",", "}" >>,  \* (aab|aa)[ab]{2,}
    << "(", "a", "a", "b", "|", "a", "a", ")", "(", "b", "b", "|", "a", "a", ")", "a" >>,  \* (aab|aa)(bb|aa)a
    << "(", "a", "|", "a", "b", ")", "(", "b", "|", "b", "b", ")", "a" >>,  \* (a|ab)(b|bb)a
    << "(", "a", "|", "a", "b", ")", "+", "b" >>,               \* (a|ab)+b
    << "(", "a", "|", "a", "a", ")", "*", "b" >>,               \* (a|aa)*b
    << "(", "a", "|", "(", "a", "b", "|", "a", ")", ")", "b" >>,  \* (a|(ab|a))b
    << "(", "a", "|", "a", "b", ")", "[", "^", "b", "]" >>,     \* (a|ab)[^b]
    << "(", "a", "|", "a", "b", ")", "b" >> }                   \* (a|ab)b

\* Patterns with a backreference to a group that a walk can reach without
\* having opened it: the group lies in the other alternative, in a skipped
\* quantified sub-pattern, or after the backreference.
UnsetBackrefPatterns ==
  { << "(", "a", "|", "(", "b", ")", ")", "\\", "2" >>,          \* (a|(b))\2
    << "(", "a", ")", "?", "\\", "1", "b" >>,                    \* (a)?\1b
    << "(", "a", ")", "*", "\\", "1" >>,                         \* (a)*\1
    << "\\", "1", "(", "a", ")" >> }                             \* \1(a)

\* Patterns with `|` or `)` outside every group.
TopLevelBarPatterns ==
  { << "a", "|", "b" >>,                                        \* a|b
    << "a", ")" >>,                                             \* a)
    << "|" >>,                                                  \* |
    << ")", "a" >>,                                             \* )a
    << "a", "|", "b", ")" >>,                                   \* a|b)
    << "(", "a", ")", "|", "b" >> }                             \* (a)|b

\* The classes of the class patterns: whether the class is negated and its
\* items, a character << c >> or a range << from, to >>.
ClassCases ==
  { [neg |-> FALSE, items |-> << >>],                           \* []
    [neg |-> TRUE, items |-> << >>],                            \* [^]
    [neg |-> FALSE, items |-> << << "a", "b" >> >>],            \* [a-b]
    [neg |-> TRUE, items |-> << << "a", "b" >> >>],             \* [^a-b]
    [neg |-> FALSE, items |-> << << "b", "b" >> >>],            \* [b-b]
    [neg |-> FALSE, items |-> << << "b", "a" >> >>],            \* [b-a]
    [neg |-> TRUE, items |-> << << "b" >> >>],                  \* [^b]
    [neg |-> FALSE, items |-> << << "a" >>, << "^" >> >>],      \* [a^]
    [neg |-> TRUE, items |-> << << "^" >>, << "a" >> >>],       \* [^^a]
    [neg |-> FALSE, items |-> << << "b", "é" >> >>],            \* [b-é]
    [neg |-> TRUE, items |-> << << "a", "a" >>, << "é" >> >>] } \* [^a-aé]

\* The text of an item and of a class.
ClassItemText(item) ==
  IF Len(item) = 1 THEN item ELSE << item[1], "-", item[2] >>
RECURSIVE ClassItemsText(_)
ClassItemsText(items) ==
  IF items = << >> THEN << >>
  ELSE ClassItemText(Head(items)) \o ClassItemsText(Tail(items))
ClassText(k) ==
  ((<< "[" >> \o (IF k.neg THEN << "^" >> ELSE << >>))
   \o ClassItemsText(k.items)) \o << "]" >>
ClassPatterns == {ClassText(k) : k \in ClassCases}

Patterns ==
  PlainPatterns \cup BoundedPatterns \cup AnchoredPatterns
  \cup PrefixPatterns \cup SuffixPatterns \cup BackrefPatterns
  \cup ZeroRepeatPatterns \cup EmptyLoopPatterns \cup MalformedPatterns
  \cup InvalidRangePatterns \cup QuantifierPatterns
  \cup BackrefNumberPatterns \cup GroupPatterns \cup BacktrackPatterns
  \cup ClassPatterns \cup UnsetBackrefPatterns \cup TopLevelBarPatterns

SubjectAlphabet == {"a", "b"}

RECURSIVE StringsUpTo(_)
StringsUpTo(n) ==
  IF n = 0 THEN { << >> }
  ELSE LET shorter == StringsUpTo(n - 1)
       IN shorter \cup {Append(w, c) : w \in shorter, c \in SubjectAlphabet}

Subjects == StringsUpTo(MaxSubjectLen) \cup ExtraSubjects

Init ==
  /\ pc = "start"
  /\ pattern \in Patterns
  /\ subject \in Subjects
  /\ ast = PErr("not parsed")
  /\ transitions = << >>
  /\ chars = << >>
  /\ loop_start_transitions = {}
  /\ matches = << >>
  /\ offset = 0
  /\ visit_counter = << >>
  /\ id_provider = 0
  /\ stack = << >>
  /\ spin = << >>
  /\ call = NoCall

\* main.rs: Parser::parse_regex_str(&args.pattern).  An Err is unwrapped by
\* the caller; a Panic aborts inside the parser.
Parse ==
  /\ pc = "start"
  /\ ast' = parse_regex_str(pattern)
  /\ pc' = CASE ast'.tag = "Ok" -> "parsed"
             [] ast'.tag = "Err" -> "parse_error"
             [] OTHER -> "parse_panic"
  /\ UNCHANGED << call, pattern, subject, transitions, chars,
                  loop_start_transitions, matches, offset, visit_counter,
                  id_provider, stack, spin >>

\* main.rs: Evaluator::new(ast_root.generate()).
Compile ==
  /\ pc = "parsed"
  /\ LET g == generate(ast.node)
     IN /\ pc' = IF g.panic THEN "compile_panic" ELSE "compiled"
        /\ transitions' = g.trs
  /\ UNCHANGED << call, pattern, subject, ast, chars, loop_start_transitions,
                  matches, offset, visit_counter, id_provider, stack, spin >>

\* is_match up to its main loop, on the tokens of the subject.
IsMatchBegin ==
  /\ pc = "compiled"
  /\ chars' = str_to_tokens(subject)
  /\ loop_start_transitions' = get_loop_start_transitions(transitions)
  /\ matches' = << >>
  /\ offset' = 0
  /\ pc' = "main_loop"
  /\ UNCHANGED << call, pattern, subject, ast, transitions, visit_counter,
                  id_provider, stack, spin >>

\* The head of 'main_loop with a visit_counter that outlives the search.
MainLoopEnterKeepsCounter ==
  /\ pc = "main_loop"
  /\ offset < Len(chars)
  /\ id_provider' = 1
  /\ stack' = << Frame(SliceFrom(chars, offset), 0, START_STATE,
                       CapturerNew, << >>, << >>) >>
  /\ pc' = "search"
  /\ UNCHANGED << call, pattern, subject, ast, transitions, chars,
                  loop_start_transitions, matches, offset, spin,
                  visit_counter >>

\* The head of 'main_loop with offset < chars.len(): the locals of a search
\* are made anew; the first frame takes loop id 0 from the fresh provider.
MainLoopEnter ==
  /\ pc = "main_loop"
  /\ offset < Len(chars)
  /\ visit_counter' = << >>
  /\ id_provider' = 1
  /\ stack' = << Frame(SliceFrom(chars, offset), 0, START_STATE,
                       CapturerNew, << >>, << >>) >>
  /\ pc' = "search"
  /\ UNCHANGED << call, pattern, subject, ast, transitions, chars,
                  loop_start_transitions, matches, offset, spin >>

\* The head of 'main_loop with offset >= chars.len(): is_match returns.
MainLoopExit ==
  /\ pc = "main_loop"
  /\ offset >= Len(chars)
  /\ pc' = "done"
  /\ UNCHANGED << call, pattern, subject, ast, transitions, chars,
                  loop_start_transitions, matches, offset, visit_counter,
                  id_provider, stack, spin >>

\* stack.pop() is None: the search from this offset found nothing.
SearchExhausted ==
  /\ pc = "search"
  /\ stack = << >>
  /\ offset' = offset + 1
  /\ pc' = "main_loop"
  /\ UNCHANGED << call, pattern, subject, ast, transitions, chars,
                  loop_start_transitions, matches, visit_counter,
                  id_provider, stack, spin >>

\* The range ending at the last token the walk consumed.
RecordedRangeInclusive(off, toks, stream) ==
  << off, Len(toks) - Len(stream) - 1 >>

\* The range recorded for a frame popped in END_STATE.
RecordedRange(off, toks, stream) == << off, Len(toks) - Len(stream) >>

\* The scan going on from the next offset whatever the match.
OffsetPlusOne(off, toks, stream) == off + 1

\* The offset the scan goes on from after a match.
NextOffset(off, toks, stream) == Max(Len(toks) - Len(stream), off + 1)

\* The popped frame is in END_STATE: the range is recorded, the rest of the
\* stack is dropped and the main loop continues.
SearchAccept ==
  /\ pc = "search"
  /\ stack # << >>
  /\ Top(stack).state = END_STATE
  /\ matches' = Append(matches, RecordedRange(offset, chars, Top(stack).stream))
  /\ offset' = NextOffset(offset, chars, Top(stack).stream)
  /\ stack' = << >>
  /\ pc' = "main_loop"
  /\ UNCHANGED << call, pattern, subject, ast, transitions, chars,
                  loop_start_transitions, visit_counter, id_provider, spin >>

\* The popped frame is in another state: its transitions are tried, last
\* listed first, and the frames of those that match are pushed.
SearchExpand ==
  /\ pc = "search"
  /\ stack # << >>
  /\ Top(stack).state # END_STATE
  /\ ~Revisits(Top(stack))
  /\ LET f == Top(stack)
         avail == Reverse(get_available_transitions(transitions, f.state))
         acc == ExpandAll(f, avail, 1,
                          [stack |-> Pop(stack),
                           visit_counter |-> visit_counter,
                           id_provider |-> id_provider, panic |-> ""],
                          loop_start_transitions)
     IN /\ stack' = acc.stack
        /\ visit_counter' = acc.visit_counter
        /\ id_provider' = acc.id_provider
        /\ pc' = IF acc.panic # "" THEN acc.panic ELSE "search"
  /\ UNCHANGED << call, pattern, subject, ast, transitions, chars,
                  loop_start_transitions, matches, offset, spin >>

\* The popped frame closes a cycle of edges that consume nothing and have
\* no max_use (see Revisits): from here on the search walks that cycle for
\* ever.  The model keeps the cycle in place of the ever-growing stack.
SearchDiverge ==
  /\ pc = "search"
  /\ stack # << >>
  /\ Top(stack).state # END_STATE
  /\ Revisits(Top(stack))
  /\ spin' = CycleOf(Top(stack))
  /\ stack' = << >>
  /\ pc' = "spin"
  /\ UNCHANGED << call, pattern, subject, ast, transitions, chars,
                  loop_start_transitions, matches, offset, visit_counter,
                  id_provider >>

\* One more step along the cycle.
Spin ==
  /\ pc = "spin"
  /\ spin' = Tail(spin) \o << Head(spin) >>
  /\ UNCHANGED << call, pc, pattern, subject, ast, transitions, chars,
                  loop_start_transitions, matches, offset, visit_counter,
                  id_provider, stack >>

Next ==
  \/ Parse
  \/ Compile
  \/ IsMatchBegin
  \/ MainLoopEnter
  \/ MainLoopExit
  \/ SearchExhausted
  \/ SearchAccept
  \/ SearchExpand
  \/ SearchDiverge
  \/ Spin

Spec == Init /\ [][Next]_vars

\* The steps of Evaluator::is_match.
is_match ==
  \/ IsMatchBegin
  \/ MainLoopEnter
  \/ MainLoopExit
  \/ SearchExhausted
  \/ SearchAccept
  \/ SearchExpand
  \/ SearchDiverge
  \/ Spin

\* is_match is sequential code on one thread: once called it takes its next
\* step whenever it has one.
FairSpec == Spec /\ WF_vars(is_match)

\* EvalMatchResult::is_match of the value is_match returns.
IsMatch == matches # << >>

-----------------------------------------------------------------------------
(* The functions of common.rs and Cond::is_match on their own: one of them *)
(* is called once, on arguments drawn from the bounded sets below.         *)

\* The ranges with start <= end.
Ranges == {r \in (0..MaxRangeEnd) \X (0..MaxRangeEnd) : r[1] <= r[2]}

RECURSIVE ListsUpTo(_, _)
ListsUpTo(S, n) ==
  IF n = 0 THEN { << >> }
  ELSE LET shorter == ListsUpTo(S, n - 1)
       IN shorter \cup {Append(l, x) : l \in shorter, x \in S}

RangeLists == ListsUpTo(Ranges, MaxRanges)

\* The ends handed to the adjust functions: is_match's ranges count the two
\* sentinel tokens, so they go beyond the length of the line.
Ends == 0..(MaxRangeEnd + 2)

HelperInit ==
  /\ pc = "common"
  /\ pattern = << >>
  /\ subject = << >>
  /\ ast = PErr("not parsed")
  /\ transitions = << >>
  /\ chars = << >>
  /\ loop_start_transitions = {}
  /\ matches = << >>
  /\ offset = 0
  /\ visit_counter = << >>
  /\ id_provider = 0
  /\ stack = << >>
  /\ spin = << >>
  /\ call = NoCall

CallMerge ==
  /\ pc = "common"
  /\ call = NoCall
  /\ \E R \in RangeLists :
       call' = [fn |-> "merge_overlapping_match_ranges", args |-> << R >>,
                ret |-> merge_overlapping_match_ranges(R)]
  /\ UNCHANGED << pc, pattern, subject, ast, transitions, chars,
                  loop_start_transitions, matches, offset, visit_counter,
                  id_provider, stack, spin >>

CallStartAdjust ==
  /\ pc = "common"
  /\ call = NoCall
  /\ \E start \in Ends :
       call' = [fn |-> "range_start_adjust", args |-> << start >>,
                ret |-> range_start_adjust(start)]
  /\ UNCHANGED << pc, pattern, subject, ast, transitions, chars,
                  loop_start_transitions, matches, offset, visit_counter,
                  id_provider, stack, spin >>

CallEndAdjust ==
  /\ pc = "common"
  /\ call = NoCall
  /\ \E end \in Ends, len \in 0..MaxRangeEnd :
       call' = [fn |-> "range_end_adjust", args |-> << end, len >>,
                ret |-> range_end_adjust(end, len)]
  /\ UNCHANGED << pc, pattern, subject, ast, transitions, chars,
                  loop_start_transitions, matches, offset, visit_counter,
                  id_provider, stack, spin >>

\* The characters of the tokens handed to the conditions: every printable
\* ASCII character the model can write and one non-ASCII character.
TokenChars == ({Ascii[i] : i \in 1..Len(Ascii)} \ {""}) \cup {"é"}

\* The token of a call, by kind and character.
Token(kind, c) == IF kind = "Char" THEN TokChar(c) ELSE [tok |-> kind, c |-> ""]
TokenKinds == {"Start", "End", "Char"}

\* The token streams of a call: the empty one, and every token alone or
\* followed by one token more.
TokenStreams ==
  { << >> }
  \cup {<< Token(k, c) >> : k \in TokenKinds, c \in TokenChars}
  \cup {<< Token(k, c), Token(k2, "a") >> :
          k \in TokenKinds, c \in TokenChars, k2 \in TokenKinds}

\* The literals and the conditions of a call.
LiteralList ==
  << LitChar("a"), LitChar("_"), LitChar("-"), LitRange("b", "d"),
     LitRange("0", "9"), LitNumeric, LitAlphanumeric,
     LitChar("."), LitChar("("), LitChar("*"), LitChar("\\"), LitChar("é") >>
GroupItems(i) ==
  {LiteralList[j] : j \in {k \in 1..3 : (i \div (2 ^ (k - 1))) % 2 = 1}}
  \cup (IF i >= 8 THEN {LiteralList[4]} ELSE {})
CondList ==
  << CondStart, CondEnd, CondAnyChar, CondNone >>
  \o [i \in 1..Len(LiteralList) |-> CondChar(LiteralList[i])]
  \o [i \in 1..16 |-> CondCharGroup(GroupItems(i - 1), FALSE)]
  \o [i \in 1..16 |-> CondCharGroup(GroupItems(i - 1), TRUE)]

\* The capture maps of a call of a CaptureRef condition.
CaptureMapList ==
  << << >>,
     MapInsert(<< >>, 1, << >>),
     MapInsert(<< >>, 1, << "a" >>),
     MapInsert(<< >>, 2, << "a" >>),
     MapInsert(MapInsert(<< >>, 1, << "a" >>), 2, << "a", "a" >>) >>

\* Cond::is_match of a condition that reads no capture.
CallCondIsMatch ==
  /\ pc = "common"
  /\ call = NoCall
  /\ \E i \in 1..Len(CondList), tokens \in TokenStreams :
       call' = [fn |-> "Cond::is_match",
                args |-> << CondList[i], tokens, << >> >>,
                ret |-> CondIsMatch(CondList[i], tokens, << >>)]
  /\ UNCHANGED << pc, pattern, subject, ast, transitions, chars,
                  loop_start_transitions, matches, offset, visit_counter,
                  id_provider, stack, spin >>

\* Cond::is_match of a CaptureRef condition.
CallCaptureRefIsMatch ==
  /\ pc = "common"
  /\ call = NoCall
  /\ \E id \in 1..2, i \in 1..Len(CaptureMapList), tokens \in TokenStreams :
       call' = [fn |-> "Cond::is_match",
                args |-> << CondCaptureRef(id), tokens, CaptureMapList[i] >>,
                ret |-> CondIsMatch(CondCaptureRef(id), tokens,
                                    CaptureMapList[i])]
  /\ UNCHANGED << pc, pattern, subject, ast, transitions, chars,
                  loop_start_transitions, matches, offset, visit_counter,
                  id_provider, stack, spin >>

\* Parser::parse_regex_str of an escape: a backslash and one character.
CallParseEscape ==
  /\ pc = "common"
  /\ call = NoCall
  /\ \E X \in TokenChars :
       call' = [fn |-> "Parser::parse_regex_str", args |-> << << "\\", X >> >>,
                ret |-> parse_regex_str(<< "\\", X >>)]
  /\ UNCHANGED << pc, pattern, subject, ast, transitions, chars,
                  loop_start_transitions, matches, offset, visit_counter,
                  id_provider, stack, spin >>

\* The Repeat nodes handed to generate: the children, and the bounds of the
\* quantifier.
MaxRepeat == 3
RepeatChildren ==
  { AstChar(LitChar("a")),
    AstSeq(<< AstChar(LitChar("a")), AstChar(LitChar("b")) >>),
    AstSeq(<< >>),
    AstAlt(<< AstChar(LitChar("a")), AstChar(LitChar("b")) >>, 1),
    AstRepeat(Some(1), Some(2), AstChar(LitChar("a"))) }
RepeatMins == {None} \cup {Some(k) : k \in 0..MaxRepeat}
RepeatMaxes == {None} \cup {Some(k) : k \in 0..(MaxRepeat + 1)}

\* AstNode::generate of a Repeat node.
CallGenerate ==
  /\ pc = "common"
  /\ call = NoCall
  /\ \E min \in RepeatMins, max \in RepeatMaxes, child \in RepeatChildren :
       call' = [fn |-> "AstNode::generate",
                args |-> << AstRepeat(min, max, child) >>,
                ret |-> generate(AstRepeat(min, max, child))]
  /\ UNCHANGED << pc, pattern, subject, ast, transitions, chars,
                  loop_start_transitions, matches, offset, visit_counter,
                  id_provider, stack, spin >>

\* The streams and the predicates Reader::parse_while is called with.
ReaderStreams == ListsUpTo({"1", "2", "a"}, MaxSubjectLen)
ReaderPreds == {AsciiDigits, {"a"}, {}}

\* Reader::parse_while: the slice it returns and the stream it leaves.
CallParseWhile ==
  /\ pc = "common"
  /\ call = NoCall
  /\ \E s \in ReaderStreams, pred \in ReaderPreds :
       call' = [fn |-> "Reader::parse_while", args |-> << s, pred >>,
                ret |-> << SliceTo(s, parse_while(s, pred)),
                           SliceFrom(s, parse_while(s, pred)) >>]
  /\ UNCHANGED << pc, pattern, subject, ast, transitions, chars,
                  loop_start_transitions, matches, offset, visit_counter,
                  id_provider, stack, spin >>

\* str_to_tokens of a subject.
CallStrToTokens ==
  /\ pc = "common"
  /\ call = NoCall
  /\ \E s \in Subjects :
       call' = [fn |-> "str_to_tokens", args |-> << s >>,
                ret |-> str_to_tokens(s)]
  /\ UNCHANGED << pc, pattern, subject, ast, transitions, chars,
                  loop_start_transitions, matches, offset, visit_counter,
                  id_provider, stack, spin >>

HelperNext ==
  \/ CallMerge
  \/ CallStartAdjust
  \/ CallEndAdjust
  \/ CallCondIsMatch
  \/ CallCaptureRefIsMatch
  \/ CallParseEscape
  \/ CallGenerate
  \/ CallParseWhile
  \/ CallStrToTokens

HelperSpec == HelperInit /\ [][HelperNext]_vars

-----------------------------------------------------------------------------
(* What a pattern denotes: the token sequences its syntax tree matches     *)
(* exactly, by induction on the tree.  A unit that tests one token denotes  *)
(* the tokens its condition accepts; a sequence denotes the concatenations  *)
(* of what its items denote, an alternation what one of its options         *)
(* denotes, and a repeat the concatenations of a permitted number of        *)
(* matches of its body.                                                     *)

\* The condition of a unit that tests one token.
LeafCond(n) ==
  CASE n.node = "Char" -> CondChar(n.lit)
    [] n.node = "AnyChar" -> CondAnyChar
    [] n.node = "CharGroup" -> CondCharGroup(n.chars, n.is_negated)
    [] n.node = "Start" -> CondStart
    [] n.node = "End" -> CondEnd

\* The numbers of copies a repeat allows on a word of length len.  With no
\* upper bound, more copies than max(lower bound, len) add only empty ones.
RepeatCounts(min, max, len) ==
  LET lo == IF IsSome(min) THEN Unwrap(min) ELSE 0
  IN lo..(IF IsSome(max) THEN Unwrap(max) ELSE Max(lo, len))

RECURSIVE Denotes(_, _)
RECURSIVE DenotesSeq(_, _, _)
RECURSIVE DenotesTimes(_, _, _)

\* w is what items[i], items[i+1], ... denote, one after another.
DenotesSeq(items, i, w) ==
  IF i > Len(items) THEN w = << >>
  ELSE \E k \in 0..Len(w) :
         /\ Denotes(items[i], SubSeq(w, 1, k))
         /\ DenotesSeq(items, i + 1, SubSeq(w, k + 1, Len(w)))

\* w is k matches of n, one after another.
DenotesTimes(n, k, w) ==
  IF k = 0 THEN w = << >>
  ELSE \E j \in 0..Len(w) :
         /\ Denotes(n, SubSeq(w, 1, j))
         /\ DenotesTimes(n, k - 1, SubSeq(w, j + 1, Len(w)))

Denotes(n, w) ==
  CASE n.node = "Root" -> Denotes(n.inner, w)
    [] n.node = "Seq" -> DenotesSeq(n.items, 1, w)
    [] n.node = "Alt" ->
         \E i \in 1..Len(n.options) : Denotes(n.options[i], w)
    [] n.node = "Repeat" ->
         \E k \in RepeatCounts(n.min, n.max, Len(w)) :
           DenotesTimes(n.inner, k, w)
    [] n.node = "CaptureRef" -> FALSE
    [] OTHER ->
         /\ Len(w) = 1
         /\ CondIsMatch(LeafCond(n), w, << >>).matched

\* The tokens of a reported range.
RangeTokens(toks, range) == SubSeq(toks, range[1] + 1, range[2])

\* Some substring of toks is denoted by n.
RefFinds(n, toks) ==
  \E i \in 0..Len(toks) : \E j \in i..Len(toks) :
    Denotes(n, SubSeq(toks, i + 1, j))

\* The items of the sequence under the root of the parsed pattern.
RootItems == ast.node.inner.items

\* The characters of the subject as tokens, without the two sentinels.
SubjectTokens == SubSeq(chars, 2, Len(chars) - 1)

\* w splits as u v w' with u denoted by the group, v by the items between
\* the group and the backreference, and w' equal to u.
BackrefSplit(items, w) ==
  \E i \in 0..Len(w) : \E j \in i..Len(w) :
    /\ Denotes(items[1], SubSeq(w, 1, i))
    /\ DenotesSeq(SubSeq(items, 2, Len(items) - 1), 1, SubSeq(w, i + 1, j))
    /\ SubSeq(w, j + 1, Len(w)) = SubSeq(w, 1, i)

\* The states in which the run has ended.
Halted ==
  {"done", "parse_error", "parse_panic", "compile_panic", "panic_slice",
   "panic_push", "panic_start_capture", "panic_end_capture"}

\* The states in which the evaluator has raised an error.
EvalPanics ==
  {"panic_slice", "panic_push", "panic_start_capture", "panic_end_capture"}

-----------------------------------------------------------------------------
(* The laws of the pattern language, stated on the finished run.           *)

\* C1: bounded-repeat law.  For a pattern with a quantifier {n,m}, is_match
\* reports a match on a subject iff some substring of its tokens is denoted
\* by the pattern, every X{n,m} standing for n to m matches of X one after
\* another, and every range it reports is such a substring; also when the
\* quantifier follows an alternation group or sits inside an outer repeat.
BoundedRepeatLaw ==
  (pattern \in BoundedPatterns /\ pc = "done") =>
    /\ IsMatch <=> RefFinds(ast.node, chars)
    /\ \A k \in 1..Len(matches) :
         Denotes(ast.node, RangeTokens(chars, matches[k]))

\* C2: termination.  For every pattern the parser accepts and generate()
\* compiles, and every subject, is_match called on the compiled graph ends:
\* it returns (or aborts) after finitely many steps.
Termination == (pc = "compiled") ~> (pc \in Halted)

\* C3: backreference correctness.  For a pattern (P)Q\1, is_match reports a
\* match iff some substring of the subject splits as u v w with P matching
\* u, Q matching v and w equal to u, and every range it reports is such a
\* substring: the backreference consumes exactly the tokens of w.
BackrefLaw ==
  (pattern \in BackrefPatterns /\ pc = "done") =>
    /\ IsMatch <=> \E i \in 0..Len(chars) : \E j \in i..Len(chars) :
                     BackrefSplit(RootItems, SubSeq(chars, i + 1, j))
    /\ \A k \in 1..Len(matches) :
         BackrefSplit(RootItems, RangeTokens(chars, matches[k]))

\* C4: capture-stack discipline.  On every walk the evaluator explores,
\* start_capture(id) is never called with id already on currents, every
\* end_capture(id) finds id on top of currents, and the currents stack of
\* every frame that has reached END_STATE is empty.
CaptureStackDiscipline ==
  /\ pc \notin {"panic_start_capture", "panic_end_capture"}
  /\ \A k \in 1..Len(stack) :
       stack[k].state = END_STATE => stack[k].capturer.currents = << >>

\* A frame has reached END_STATE on a walk through two capture groups, one
\* inside the other.
CaptureStackWitness ==
  /\ pc = "search"
  /\ stack # << >>
  /\ Top(stack).state = END_STATE
  /\ Cardinality(DOMAIN Top(stack).capturer.captures) >= 2

\* The items of P in the parsed ^P$, ^P and P$.
AnchoredItems == SubSeq(RootItems, 2, Len(RootItems) - 1)
PrefixItems == SubSeq(RootItems, 2, Len(RootItems))
SuffixItems == SubSeq(RootItems, 1, Len(RootItems) - 1)

\* C5: anchoring.  is_match of ^P$ reports a match on the tokens of a
\* subject iff P matches exactly the whole subject, and then the one range
\* it reports spans the whole token stream, both sentinels included.
AnchoringLaw ==
  (pattern \in AnchoredPatterns /\ pc = "done") =>
    /\ IsMatch <=> DenotesSeq(AnchoredItems, 1, SubjectTokens)
    /\ IsMatch => matches = << << 0, Len(chars) >> >>

\* ^P matches iff P matches a prefix of the subject, and every range
\* reported starts at token index 0.
PrefixLaw ==
  (pattern \in PrefixPatterns /\ pc = "done") =>
    /\ IsMatch <=> \E j \in 0..Len(SubjectTokens) :
                     DenotesSeq(PrefixItems, 1, SubSeq(SubjectTokens, 1, j))
    /\ \A k \in 1..Len(matches) : matches[k][1] = 0

\* P$ matches iff P matches a suffix of the subject, and every range
\* reported ends at the end of the token stream.
SuffixLaw ==
  (pattern \in SuffixPatterns /\ pc = "done") =>
    /\ IsMatch <=> \E i \in 0..Len(SubjectTokens) :
                     DenotesSeq(SuffixItems, 1,
                                SubSeq(SubjectTokens, i + 1,
                                       Len(SubjectTokens)))
    /\ \A k \in 1..Len(matches) : matches[k][2] = Len(chars)

\* C6: anchor correctness.  ^P matches a subject iff P matches a prefix of
\* it, with every reported range starting at token index 0; P$ matches iff
\* P matches a suffix, with every reported range ending at the end of the
\* token stream.
AnchorCorrectness == PrefixLaw /\ SuffixLaw

\* C7: zero-repeat identity.  X{0} parses to a Repeat with min and max both
\* Some(0), compiles to the single epsilon edge from START_STATE to
\* END_STATE, and is_match reports the empty range at every offset of the
\* token stream and nothing else.
ZeroRepeatIdentity ==
  pattern \in ZeroRepeatPatterns =>
    /\ pc \notin {"parse_error", "parse_panic", "compile_panic"}
    /\ pc # "start" =>
         /\ Len(RootItems) = 1
         /\ RootItems[1].node = "Repeat"
         /\ RootItems[1].min = Some(0)
         /\ RootItems[1].max = Some(0)
    /\ pc \notin {"start", "parsed"} =>
         transitions = << new(START_STATE, END_STATE) >>
    /\ \A k \in 1..Len(matches) : matches[k] = << k - 1, k - 1 >>
    /\ pc = "done" => Len(matches) = Len(chars)

\* is_match has returned for a pattern X{0} on a subject of two characters
\* or more.
ZeroRepeatWitness ==
  /\ pattern \in ZeroRepeatPatterns
  /\ pc = "done"
  /\ Len(subject) >= 2
  /\ Len(matches) = Len(subject) + 2

\* C8: evaluation raises no error.  is_match never slices the stream out of
\* range, never unwraps a missing capture buffer and never fails an
\* assertion of the Capturer: every Match(step) a condition returns on a
\* frame has step <= the length of the frame's stream, and every id on a
\* frame's currents stack has a buffer in captures.
EvaluationNeverPanics ==
  /\ pc \notin EvalPanics
  /\ \A k \in 1..Len(stack) :
       /\ \A i \in 1..Len(transitions) :
            transitions[i].from_state = stack[k].state =>
              CondIsMatch(transitions[i].cond, stack[k].stream,
                          stack[k].capturer.captures).step
                <= Len(stack[k].stream)
       /\ \A c \in 1..Len(stack[k].capturer.currents) :
            stack[k].capturer.currents[c]
              \in DOMAIN stack[k].capturer.captures

\* A backreference is about to be tested on a frame whose stream is shorter
\* than the capture, and another frame has an open group.
EvaluationWitness ==
  /\ pc = "search"
  /\ \E k \in 1..Len(stack) : \E i \in 1..Len(transitions) :
       /\ transitions[i].from_state = stack[k].state
       /\ transitions[i].cond.cond = "CaptureRef"
       /\ transitions[i].cond.id \in DOMAIN stack[k].capturer.captures
       /\ Len(stack[k].stream)
            < Len(stack[k].capturer.captures[transitions[i].cond.id])
  /\ \E k \in 1..Len(stack) : stack[k].capturer.currents # << >>

\* C9: parse-error reporting.  For every malformed pattern parse_regex_str
\* returns an error value; it never panics.
ParseErrorsReported ==
  pattern \in MalformedPatterns =>
    /\ pc \in {"start", "parse_error"}
    /\ pc = "parse_error" => ast.tag = "Err"

\* C10: a pattern whose quantifier {n,m} has m < n is rejected by the parser
\* or by generate() before any evaluation: no transition list is produced
\* and is_match is never reached.
InvalidRangeRejected ==
  pattern \in InvalidRangePatterns =>
    /\ pc \in {"start", "parsed", "parse_error", "compile_panic"}
    /\ transitions = << >>

\* The value of a decimal numeral.
RECURSIVE DecimalValue(_)
DecimalValue(digits) ==
  IF digits = << >> THEN 0
  ELSE 10 * DecimalValue(SubSeq(digits, 1, Len(digits) - 1))
       + (CHOOSE d \in 0..9 : Ascii[17 + d] = digits[Len(digits)])

\* The bounds a quantifier stands for.
QuantifierMin(q) ==
  CASE q.kind \in {"*", "?"} -> None
    [] q.kind = "+" -> Some(1)
    [] OTHER -> Some(DecimalValue(q.n))
QuantifierMax(q) ==
  CASE q.kind \in {"*", "+", "{n,}"} -> None
    [] q.kind = "?" -> Some(1)
    [] q.kind = "{n}" -> Some(DecimalValue(q.n))
    [] OTHER -> Some(DecimalValue(q.m))

\* C11: a quantifier after an atom parses to a Repeat of that atom whose
\* min and max are the ones the quantifier stands for, the numbers n and m
\* being decimal numerals of one or more digits.
QuantifierParsing ==
  pc # "start" =>
    \A A \in QuantifierAtoms, q \in QuantifierCases :
      pattern = Quantified(A, q) =>
        /\ ast.tag = "Ok"
        /\ RootItems =
             << AstRepeat(QuantifierMin(q), QuantifierMax(q),
                          parse_regex_str(A).node.inner.items[1]) >>

\* C12: a backslash followed by a digit 1..9 and any further digits parses
\* to one CaptureRef whose id is the decimal value of all those digits.
BackrefParsing ==
  pc # "start" =>
    \A H \in BackrefNumberHeads, d \in BackrefNumbers :
      pattern = BackrefNumbered(H, d) =>
        /\ ast.tag = "Ok"
        /\ RootItems =
             Append(parse_regex_str(H).node.inner.items,
                    AstCaptureRef(DecimalValue(d)))

\* The ids of the Alt nodes of a tree, in pre-order, which is the order of
\* their opening parentheses in the pattern.
RECURSIVE AltIds(_), AltIdsOfAll(_, _)
AltIdsOfAll(nodes, i) ==
  IF i > Len(nodes) THEN << >>
  ELSE AltIds(nodes[i]) \o AltIdsOfAll(nodes, i + 1)
AltIds(n) ==
  CASE n.node = "Root" -> AltIds(n.inner)
    [] n.node = "Seq" -> AltIdsOfAll(n.items, 1)
    [] n.node = "Alt" -> << n.id >> \o AltIdsOfAll(n.options, 1)
    [] n.node = "Repeat" -> AltIds(n.inner)
    [] OTHER -> << >>

\* The number of opening parentheses of a pattern (no pattern of the model
\* has one escaped or inside a class).
OpenParens(P) == Cardinality({i \in 1..Len(P) : P[i] = "("})

\* C13: every parenthesised sub-expression of a parsed pattern is an Alt,
\* and the k-th opening parenthesis in source order, nested or not, has
\* id k; so no two Alt nodes share an id.
GroupIdsInSourceOrder ==
  (pc # "start" /\ ast.tag = "Ok") =>
    /\ Len(AltIds(ast.node)) = OpenParens(pattern)
    /\ \A k \in 1..Len(AltIds(ast.node)) : AltIds(ast.node)[k] = k

\* A parsed pattern with nested and neighbouring groups.
GroupIdsWitness ==
  /\ pc = "parsed"
  /\ pattern = << "(", "(", "a", ")", "(", "b", ")", ")", "(", "a", ")" >>
  /\ AltIds(ast.node) = << 1, 2, 3, 4 >>
  /\ ast.node.inner.items[1].options[1].items[2].id = 3

-----------------------------------------------------------------------------
(* The laws of the functions of common.rs, stated on a finished call.      *)

\* Two ranges have no position in common, their ends included.
RangesDisjoint(a, b) == (a[1]..a[2]) \cap (b[1]..b[2]) = {}

\* C14: merging the output of merge_overlapping_match_ranges again gives the
\* same list, and the output is sorted ascending by start with pairwise
\* disjoint ranges, for every list of ranges with start <= end.
MergeIdempotent ==
  call.fn = "merge_overlapping_match_ranges" =>
    /\ merge_overlapping_match_ranges(call.ret) = call.ret
    /\ \A i, j \in 1..Len(call.ret) :
         i < j => /\ call.ret[i][1] <= call.ret[j][1]
                  /\ RangesDisjoint(call.ret[i], call.ret[j])

\* A call on an unsorted list some of whose ranges were merged and some not.
MergeWitness ==
  /\ call.fn = "merge_overlapping_match_ranges"
  /\ call.args[1] # sort(call.args[1])
  /\ Len(call.ret) = 2
  /\ Len(call.args[1]) = 3

\* The positions of a range, its ends included.
Positions(r) == r[1]..r[2]

\* C15: every range handed to merge_overlapping_match_ranges lies within
\* some range of the output, and the output covers the same positions as
\* the input, each output range ending at the greatest end of the ranges
\* folded into it.
MergeFoldsToMaxima ==
  call.fn = "merge_overlapping_match_ranges" =>
    /\ \A i \in 1..Len(call.args[1]) :
         \E j \in 1..Len(call.ret) :
           Positions(call.args[1][i]) \subseteq Positions(call.ret[j])
    /\ UNION {Positions(call.ret[j]) : j \in 1..Len(call.ret)}
         = UNION {Positions(call.args[1][i]) : i \in 1..Len(call.args[1])}

\* C16: range_start_adjust(s) is s - 1 when s > 0 and 0 otherwise,
\* range_end_adjust(e, len) is min(e - 1, len) when e >= 1 and e otherwise,
\* and neither subtracts below zero.
AdjustFormulas ==
  /\ call.fn = "range_start_adjust" =>
       /\ ~call.ret.overflow
       /\ call.ret.value = IF call.args[1] > 0 THEN call.args[1] - 1 ELSE 0
  /\ call.fn = "range_end_adjust" =>
       /\ ~call.ret.overflow
       /\ call.ret.value = IF call.args[1] >= 1
                             THEN Min(call.args[1] - 1, call.args[2])
                             ELSE call.args[1]

\* A call of range_end_adjust with an end two beyond the length of the line:
\* the range of a match that took both sentinels.
AdjustWitness ==
  /\ call.fn = "range_end_adjust"
  /\ call.args[2] >= 1
  /\ call.args[1] = call.args[2] + 2
  /\ call.ret = Returned(call.args[2])

-----------------------------------------------------------------------------
(* The shape of what is_match records.                                     *)

\* The recorded ranges: each within the tokens, starts strictly ascending,
\* each range starting at or after the end of the one before, and all of
\* them behind the offset the scan has come to.
MatchesInShape ==
  /\ \A i \in 1..Len(matches) :
       /\ matches[i][1] <= matches[i][2]
       /\ matches[i][2] <= Len(chars)
       /\ matches[i][1] < offset
       /\ matches[i][2] <= offset
  /\ \A i \in 1..(Len(matches) - 1) :
       /\ matches[i][1] < matches[i + 1][1]
       /\ matches[i][2] <= matches[i + 1][1]

\* C17: the ranges is_match records are in strictly ascending start order,
\* at most one per start offset, with start <= end <= number of tokens, each
\* starting at or after the end of the one before; and the offset of the
\* scan never goes back and is greater after every search, so there is at
\* most one search per token position.
MatchListShape ==
  [][/\ MatchesInShape'
     /\ offset' >= offset
     /\ (pc = "search" /\ pc' = "main_loop") => offset' > offset
     /\ (pc = "main_loop" /\ pc' = "search") => offset' < Len(chars)]_vars

\* A finished scan with a zero-width match and a match of two tokens or
\* more among three or more.
MatchListWitness ==
  /\ pc = "done"
  /\ Len(matches) >= 3
  /\ \E i \in 1..Len(matches) : matches[i][1] = matches[i][2]
  /\ \E i \in 1..Len(matches) : matches[i][2] >= matches[i][1] + 2

\* The popped frame is in END_STATE.
AcceptingFrame ==
  pc = "search" /\ stack # << >> /\ Top(stack).state = END_STATE

\* C18 as stated: when the search from offset pops a frame in END_STATE with
\* the token suffix remaining, the range recorded for a subject of n
\* characters is (offset, n + 1 - |remaining|).
RecordedRangeAsStated ==
  [][AcceptingFrame =>
       matches' = Append(matches, << offset, Len(subject) + 1
                                             - Len(Top(stack).stream) >>)]_vars

\* C18 amended: the range recorded is (offset, n + 2 - |remaining|), the
\* number of tokens before the remaining ones.
RecordedRangeEnd ==
  [][AcceptingFrame =>
       matches' = Append(matches, << offset, Len(subject) + 2
                                             - Len(Top(stack).stream) >>)]_vars

\* The first match of a subject of three characters was just recorded: it
\* began at the first character and left two tokens, the last character and
\* the End sentinel.
RecordedRangeWitness ==
  /\ pc = "main_loop"
  /\ Len(subject) = 3
  /\ matches = << << 1, 3 >> >>
  /\ offset = 3

-----------------------------------------------------------------------------
(* is_match as a function of the graph and the tokens, for laws that       *)
(* relate two runs.  It takes the steps of the actions above.              *)

\* The `while let Some(..) = stack.pop()` loop of one search: how it ends,
\* and the stream of the accepting frame.
RECURSIVE InnerSearch(_, _, _)
InnerSearch(trs, loop_starts, acc) ==
  IF acc.panic # "" THEN [out |-> "panic", stream |-> << >>]
  ELSE IF acc.stack = << >> THEN [out |-> "exhausted", stream |-> << >>]
  ELSE IF Top(acc.stack).state = END_STATE
  THEN [out |-> "accept", stream |-> Top(acc.stack).stream]
  ELSE IF Revisits(Top(acc.stack)) THEN [out |-> "diverge", stream |-> << >>]
  ELSE InnerSearch(trs, loop_starts,
         ExpandAll(Top(acc.stack),
                   Reverse(get_available_transitions(trs, Top(acc.stack).state)),
                   1, [acc EXCEPT !.stack = Pop(acc.stack)], loop_starts))

\* The search from one offset.
SearchAt(trs, loop_starts, toks, off) ==
  InnerSearch(trs, loop_starts,
              [stack |-> << Frame(SliceFrom(toks, off), 0, START_STATE,
                                  CapturerNew, << >>, << >>) >>,
               visit_counter |-> << >>, id_provider |-> 1, panic |-> ""])

\* 'main_loop from an offset on: whether is_match returns, and its matches.
RECURSIVE MainLoop(_, _, _, _, _)
MainLoopAfter(trs, loop_starts, toks, off, found, r) ==
  CASE r.out = "accept" ->
         MainLoop(trs, loop_starts, toks, NextOffset(off, toks, r.stream),
                  Append(found, RecordedRange(off, toks, r.stream)))
    [] r.out = "exhausted" -> MainLoop(trs, loop_starts, toks, off + 1, found)
    [] OTHER -> [returned |-> FALSE, matches |-> found]
MainLoop(trs, loop_starts, toks, off, found) ==
  IF off >= Len(toks) THEN [returned |-> TRUE, matches |-> found]
  ELSE MainLoopAfter(trs, loop_starts, toks, off, found,
                     SearchAt(trs, loop_starts, toks, off))

IsMatchOf(trs, toks) ==
  MainLoop(trs, get_loop_start_transitions(trs), toks, 0, << >>)

\* main.rs on one line: parse, generate, is_match; whether a match is
\* reported.
CompiledMatches(g, line) ==
  /\ ~g.panic
  /\ IsMatchOf(g.trs, str_to_tokens(line)).returned
  /\ IsMatchOf(g.trs, str_to_tokens(line)).matches # << >>
ParsedMatches(a, line) ==
  a.tag = "Ok" /\ CompiledMatches(generate(a.node), line)
Matches(P, line) == ParsedMatches(parse_regex_str(P), line)

\* main.rs: the part of the line a range stands for, counted in characters
\* (the bytes of main.rs for a line of ASCII characters).
Decoded(line, range) ==
  SubSeq(line, range_start_adjust(range[1]).value + 1,
         range_end_adjust(range[2], Len(line)).value)

\* C19: each range is_match reports for a pattern P decodes to a part t of
\* the subject such that is_match of ^P$ on the tokens of t reports a match.
RematchRoundTrip ==
  pc = "done" =>
    \A i \in 1..Len(matches) :
      Matches(Anchored(pattern), Decoded(subject, matches[i]))

\* The function agrees with the run.
IsMatchOfAgrees ==
  pc = "done" =>
    IsMatchOf(transitions, chars) = [returned |-> TRUE, matches |-> matches]

\* C20: for a pattern of literals, classes, sequences and alternation
\* groups, with unbounded quantifiers on sub-patterns that consume a
\* character or more, is_match returns, and returns Match iff some
\* contiguous part of the tokens belongs to the language of the pattern:
\* when an earlier alternative matches and the rest of the pattern then
\* fails, the later alternatives are still tried.
AlternationBacktracking ==
  pattern \in BacktrackPatterns =>
    /\ pc \notin {"parse_error", "parse_panic", "compile_panic", "spin"}
                   \cup EvalPanics
    /\ pc = "done" => (IsMatch <=> RefFinds(ast.node, chars))

\* (aab|aa)[ab]{2,} on aabb: the first alternative matches aab and leaves
\* one character, too few for the class; the match found takes the second.
AlternationBacktrackingWitness ==
  /\ pc = "done"
  /\ pattern = << "(", "a", "a", "b", "|", "a", "a", ")",
                  "[", "a", "b", "]", "{", "2", ",", "}" >>
  /\ subject = << "a", "a", "b", "b" >>
  /\ matches = << << 1, 5 >> >>

-----------------------------------------------------------------------------
(* The laws of Cond::is_match and str_to_tokens, stated on a finished      *)
(* call.                                                                   *)

\* The stream begins with a token of the kind.
BeginsWith(tokens, kind) == tokens # << >> /\ tokens[1].tok = kind

\* C21: the Start condition matches exactly a stream that begins with the
\* Start token and the End condition one that begins with the End token,
\* each consuming 1; a Char, AnyChar or CharGroup condition, negated or not,
\* matches only a stream that begins with a Char token, consuming 1: never a
\* sentinel, never the empty stream.
SentinelInvariant ==
  call.fn = "Cond::is_match" =>
    /\ call.ret.matched /\ call.args[1].cond # "None"
                        /\ call.args[1].cond # "CaptureRef"
         => call.ret.step = 1
    /\ call.args[1].cond = "Start" =>
         (call.ret.matched <=> BeginsWith(call.args[2], "Start"))
    /\ call.args[1].cond = "End" =>
         (call.ret.matched <=> BeginsWith(call.args[2], "End"))
    /\ call.args[1].cond \in {"Char", "AnyChar", "CharGroup"} =>
         (call.ret.matched => BeginsWith(call.args[2], "Char"))

\* A negated class called on a stream that begins with a sentinel.
SentinelWitness ==
  /\ call.fn = "Cond::is_match"
  /\ call.args[1] = CondCharGroup({LitChar("a")}, TRUE)
  /\ call.args[2] = << TokStart, TokChar("a") >>
  /\ call.ret = NoMatch

\* C22: str_to_tokens maps a subject of n characters to n + 2 tokens: Start,
\* then Char(c) for each character in order, then End; Start and End occur
\* nowhere else.
Tokenization ==
  call.fn = "str_to_tokens" =>
    /\ Len(call.ret) = Len(call.args[1]) + 2
    /\ call.ret[1] = TokStart
    /\ call.ret[Len(call.ret)] = TokEnd
    /\ \A i \in 1..Len(call.args[1]) :
         call.ret[i + 1] = [tok |-> "Char", c |-> call.args[1][i]]
    /\ \A i \in 2..(Len(call.ret) - 1) :
         call.ret[i].tok \notin {"Start", "End"}

\* The tokens of a subject of three characters, one of them not ASCII.
TokenizationWitness ==
  /\ call.fn = "str_to_tokens"
  /\ call.args[1] = << "é", "é", "a" >>
  /\ Len(call.ret) = 5

-----------------------------------------------------------------------------
(* The laws of classes and escapes, stated on the run.                     *)

\* The literal an item of a class stands for.
ItemLiteral(item) ==
  IF Len(item) = 1 THEN LitChar(item[1]) ELSE LitRange(item[1], item[2])

\* The character is one an item stands for: the character itself, or one
\* of a range, both ends included.
ItemHas(item, c) ==
  IF Len(item) = 1 THEN c = item[1]
  ELSE CharCode(item[1]) <= CharCode(c) /\ CharCode(c) <= CharCode(item[2])

\* The class accepts the character: some item has it, xor negation.
ClassAccepts(k, c) ==
  (\E i \in 1..Len(k.items) : ItemHas(k.items[i], c)) # k.neg

\* The ranges of the single characters of the subject that satisfy a test,
\* in order.
RECURSIVE CharRanges(_, _, _)
CharRanges(k, line, i) ==
  IF i > Len(line) THEN << >>
  ELSE (IF ClassAccepts(k, line[i]) THEN << << i, i + 1 >> >> ELSE << >>)
       \o CharRanges(k, line, i + 1)

\* C23: a class parses to a CharGroup of its items, characters and symbolic
\* ranges, negated iff it begins with ^; and it matches a character iff
\* (some item matches it) xor is_negated, the ends of a range included, so
\* is_match reports exactly the characters of the subject the class accepts.
ClassLaw ==
  \A k \in ClassCases :
    pattern = ClassText(k) =>
      /\ pc \notin {"parse_error", "parse_panic", "compile_panic", "spin"}
                     \cup EvalPanics
      /\ pc # "start" =>
           RootItems = << AstCharGroup(k.neg,
                            {ItemLiteral(k.items[i]) : i \in 1..Len(k.items)}) >>
      /\ pc = "done" => matches = CharRanges(k, subject, 1)

\* The negated class [^a-aé] on a subject with an accepted and a refused
\* character.
ClassWitness ==
  /\ pc = "done"
  /\ pattern = << "[", "^", "a", "-", "a", "é", "]" >>
  /\ subject = << "a", "b", "a" >>
  /\ matches = << << 2, 3 >> >>

\* The ASCII digits and the characters of [A-Za-z0-9_].
DigitChars == {"0", "1", "2", "3", "4", "5", "6", "7", "8", "9"}
WordChars ==
  DigitChars \cup {"_"}
  \cup {"a", "b", "c", "d", "e", "f", "g", "h", "i", "j", "k", "l", "m",
        "n", "o", "p", "q", "r", "s", "t", "u", "v", "w", "x", "y", "z"}
  \cup {"A", "B", "C", "D", "E", "F", "G", "H", "I", "J", "K", "L", "M",
        "N", "O", "P", "Q", "R", "S", "T", "U", "V", "W", "X", "Y", "Z"}

\* The tree of a pattern that is one Char atom.
OneChar(l) == AstRoot(AstSeq(<< AstChar(l) >>))

\* The characters a literal of a Char condition stands for, for the three
\* kinds of literal an escape yields.
EscapeChars(l) ==
  CASE l.lit = "Numeric" -> DigitChars
    [] l.lit = "Alphanumeric" -> WordChars
    [] OTHER -> {l.start}

\* C24: \d parses to Char(Numeric), which matches exactly the ASCII digits,
\* \w parses to Char(Alphanumeric), which matches exactly [A-Za-z0-9_], and
\* any other escaped character X that is no backreference digit parses to
\* the literal X, which matches exactly X (so \., \(, \* and \\ match
\* themselves).
EscapeLaw ==
  /\ call.fn = "Parser::parse_regex_str" =>
       LET X == call.args[1][2]
       IN X \notin {"1", "2", "3", "4", "5", "6", "7", "8", "9"} =>
            /\ call.ret.tag = "Ok"
            /\ call.ret.node = OneChar(CASE X = "d" -> LitNumeric
                                         [] X = "w" -> LitAlphanumeric
                                         [] OTHER -> LitChar(X))
  /\ (call.fn = "Cond::is_match" /\ call.args[1].cond = "Char"
      /\ call.args[1].lit.lit # "Range") =>
       (call.ret.matched <=>
          /\ BeginsWith(call.args[2], "Char")
          /\ call.args[2][1].c \in EscapeChars(call.args[1].lit))

\* The escaped parenthesis parsed, to a literal and not to a group.
EscapeWitness ==
  /\ call.fn = "Parser::parse_regex_str"
  /\ call.args[1] = << "\\", "(" >>
  /\ call.ret.tag = "Ok"
  /\ call.ret.node.inner.items = << [node |-> "Char", lit |-> LitChar("(")] >>


-----------------------------------------------------------------------------
(* Walks.  The walk of a frame is the list of the transitions taken from   *)
(* the first frame of its search; the laws below are stated on it.         *)

\* How often the walk has taken the transition with a max_use that leaves
\* each state: the counter a search would keep for this walk alone.
WalkCounter(walk) ==
  [s \in {walk[i].from_state :
            i \in {j \in 1..Len(walk) : IsSome(walk[j].max_use)}} |->
     Cardinality({j \in 1..Len(walk) :
                    IsSome(walk[j].max_use) /\ walk[j].from_state = s})]

\* The `for` loop of is_match with the counter of the popped frame's walk in
\* place of visit_counter.
RECURSIVE ExpandAllOnWalk(_, _, _, _, _)
ExpandAllOnWalk(f, avail, i, acc, loop_starts) ==
  IF i > Len(avail) \/ acc.panic # "" THEN acc
  ELSE ExpandAllOnWalk(f, avail, i + 1,
         ExpandOne(f, avail[i],
                   [acc EXCEPT !.visit_counter = WalkCounter(f.walk)],
                   loop_starts),
         loop_starts)

\* One search, depth first and in list order, over the walks that take each
\* transition with max_use = Some(k) at most k times: how it ends, and the
\* stream of the first accepting walk.
RECURSIVE WalkSearch(_, _, _)
WalkSearch(trs, loop_starts, acc) ==
  IF acc.panic # "" THEN [out |-> "panic", stream |-> << >>]
  ELSE IF acc.stack = << >> THEN [out |-> "exhausted", stream |-> << >>]
  ELSE IF Top(acc.stack).state = END_STATE
  THEN [out |-> "accept", stream |-> Top(acc.stack).stream]
  ELSE IF Revisits(Top(acc.stack)) THEN [out |-> "diverge", stream |-> << >>]
  ELSE WalkSearch(trs, loop_starts,
         ExpandAllOnWalk(Top(acc.stack),
           Reverse(get_available_transitions(trs, Top(acc.stack).state)),
           1, [acc EXCEPT !.stack = Pop(acc.stack)], loop_starts))

WalkSearchAt(trs, loop_starts, toks, off) ==
  WalkSearch(trs, loop_starts,
             [stack |-> << Frame(SliceFrom(toks, off), 0, START_STATE,
                                 CapturerNew, << >>, << >>) >>,
              visit_counter |-> << >>, id_provider |-> 1, panic |-> ""])

\* The place of a transition in the transition list.
ListIndex(trs, tr) == CHOOSE i \in 1..Len(trs) :
                        trs[i] = tr /\ \A j \in 1..(i - 1) : trs[j] # tr

\* Walk v comes before walk w in pattern order: where they part, v takes a
\* transition listed before the one w takes.
WalkBefore(trs, v, w) ==
  \E k \in 1..Min(Len(v), Len(w)) :
    /\ SubSeq(v, 1, k - 1) = SubSeq(w, 1, k - 1)
    /\ v[k].from_state = w[k].from_state
    /\ ListIndex(trs, v[k]) < ListIndex(trs, w[k])

\* C25: search order.  The frames of the stack lie in pattern order, the
\* top first, so the walks of one search are explored depth first in the
\* order of the transition list; and the search from an offset ends as the
\* first accepting walk in that order does: it records the range of that
\* walk, and finds nothing only when there is no accepting walk.
SearchOrder ==
  pc = "search" =>
    /\ \A i \in 1..Len(stack) : \A j \in (i + 1)..Len(stack) :
         WalkBefore(transitions, stack[j].walk, stack[i].walk)
    /\ (stack # << >> /\ Top(stack).state = END_STATE) =>
         WalkSearchAt(transitions, loop_start_transitions, chars, offset)
           = [out |-> "accept", stream |-> Top(stack).stream]
    /\ stack = << >> =>
         WalkSearchAt(transitions, loop_start_transitions, chars, offset).out
           = "exhausted"

\* The order of the stack alone.
StackInPatternOrder ==
  pc = "search" =>
    \A i \in 1..Len(stack) : \A j \in (i + 1)..Len(stack) :
      WalkBefore(transitions, stack[j].walk, stack[i].walk)

\* How often a walk has taken the transition tr.
Traversals(walk, tr) == Cardinality({i \in 1..Len(walk) : walk[i] = tr})

\* The transitions with a max_use that leave a state, by their place in the
\* list.
Capped(trs, state) ==
  {i \in 1..Len(trs) : trs[i].from_state = state /\ IsSome(trs[i].max_use)}

\* No walk of a frame of the stack has taken a transition with
\* max_use = Some(k) more than k times.
WalksWithinCap ==
  \A n \in 1..Len(stack) : \A i \in 1..Len(transitions) :
    IsSome(transitions[i].max_use) =>
      Traversals(stack[n].walk, transitions[i])
        <= Unwrap(transitions[i].max_use)

\* The step that pops a frame and tries its transitions, none panicking.
ExpandStep ==
  /\ pc = "search" /\ pc' = "search"
  /\ stack # << >>
  /\ Top(stack).state # END_STATE

\* Whether the step has pushed a frame for transition i of the popped frame.
Taken(i) ==
  \E n \in Len(stack)..Len(stack') :
    stack'[n].walk = Append(Top(stack).walk, transitions[i])

RECURSIVE WalkMainLoop(_, _, _, _, _)
WalkMainLoopAfter(trs, loop_starts, toks, off, found, r) ==
  CASE r.out = "accept" ->
         WalkMainLoop(trs, loop_starts, toks, NextOffset(off, toks, r.stream),
                      Append(found, RecordedRange(off, toks, r.stream)))
    [] r.out = "exhausted" ->
         WalkMainLoop(trs, loop_starts, toks, off + 1, found)
    [] OTHER -> [returned |-> FALSE, matches |-> found]
WalkMainLoop(trs, loop_starts, toks, off, found) ==
  IF off >= Len(toks) THEN [returned |-> TRUE, matches |-> found]
  ELSE WalkMainLoopAfter(trs, loop_starts, toks, off, found,
                         WalkSearchAt(trs, loop_starts, toks, off))

WalkIsMatchOf(trs, toks) ==
  WalkMainLoop(trs, get_loop_start_transitions(trs), toks, 0, << >>)

\* Whether a quantifier with a maximum lies inside another repetition;
\* in_repeat tells whether n itself lies inside one.
RECURSIVE NestedBounded(_, _)
NestedBounded(n, in_repeat) ==
  CASE n.node = "Root" -> NestedBounded(n.inner, in_repeat)
    [] n.node = "Seq" ->
         \E i \in 1..Len(n.items) : NestedBounded(n.items[i], in_repeat)
    [] n.node = "Alt" ->
         \E i \in 1..Len(n.options) : NestedBounded(n.options[i], in_repeat)
    [] n.node = "Repeat" ->
         (in_repeat /\ IsSome(n.max)) \/ NestedBounded(n.inner, TRUE)
    [] OTHER -> FALSE

\* C27: for a pattern in which no quantifier with a maximum lies inside
\* another repetition, is_match with its one visit_counter per search
\* returns the ranges that the evaluator with the counter of each frame's
\* own walk returns.
CounterPerSearchAsPerWalk ==
  (pc = "done" /\ ~NestedBounded(ast.node, FALSE)) =>
    WalkIsMatchOf(transitions, chars)
      = [returned |-> TRUE, matches |-> matches]

\* The stream and the capturer a walk leaves, from the stream and the
\* capturer it starts with: for each transition in turn the tokens its
\* condition consumes are pushed and its capture instruction is applied.
RECURSIVE Replay(_, _, _, _)
Replay(walk, i, stream, cap) ==
  IF i > Len(walk) THEN [stream |-> stream, capturer |-> cap]
  ELSE LET step == CondIsMatch(walk[i].cond, stream, cap.captures).step
       IN Replay(walk, i + 1, SliceFrom(stream, step),
                 ApplyInstruction(push(cap, SliceTo(stream, step)).cap,
                                  walk[i].capture_group_ins).cap)

\* Every frame of the stack holds the stream and the capturer of its walk.
FramesOfWalks ==
  \A n \in 1..Len(stack) :
    /\ stack[n].walk = << >> \/ stack[n].walk[1].from_state = START_STATE
    /\ \A i \in 1..(Len(stack[n].walk) - 1) :
         stack[n].walk[i].to_state = stack[n].walk[i + 1].from_state
    /\ Replay(stack[n].walk, 1, SliceFrom(chars, offset), CapturerNew)
         = [stream |-> stack[n].stream, capturer |-> stack[n].capturer]

\* C28: capture state is per path.  The capturer of every frame of the
\* stack, captures and currents, is the one its own walk from the first
\* frame of the search leaves: the instructions and the consumed tokens of
\* that walk and nothing else; and a step of the search that pops a frame
\* and tries, takes or fails its transitions leaves the capturers of the
\* frames that stay on the stack as they were.
CapturerPerPath ==
  /\ []FramesOfWalks
  /\ [][(pc = "search" /\ pc' = "search" /\ stack # << >>) =>
          \A n \in 1..(Len(stack) - 1) :
            /\ stack'[n].walk = stack[n].walk
            /\ stack'[n].capturer = stack[n].capturer
       ]_vars

\* Two frames wait on the stack whose walks part inside a group: the one
\* below has closed group 1 on one text, the top on another.
CapturerPerPathWitness ==
  /\ pc = "search"
  /\ Len(stack) >= 2
  /\ 1 \in DOMAIN Top(stack).capturer.captures
  /\ 1 \in DOMAIN stack[Len(stack) - 1].capturer.captures
  /\ Top(stack).capturer.currents = << >>
  /\ stack[Len(stack) - 1].capturer.currents = << >>
  /\ Top(stack).capturer.captures[1] # << >>
  /\ stack[Len(stack) - 1].capturer.captures[1] # << >>
  /\ Top(stack).capturer.captures[1]
       # stack[Len(stack) - 1].capturer.captures[1]

\* The number of tokens the first i transitions of a walk consume.
Pos(walk, i) ==
  Len(SliceFrom(chars, offset))
    - Len(Replay(SubSeq(walk, 1, i), 1, SliceFrom(chars, offset),
                 CapturerNew).stream)

\* The tokens the transitions i + 1 .. j of a walk consume.
Consumed(walk, i, j) ==
  SubSeq(SliceFrom(chars, offset), Pos(walk, i) + 1, Pos(walk, j))

\* The place of the last transition of a walk with the given capture
\* instruction, 0 when there is none.
LastIns(walk, ins) ==
  LET at == {i \in 1..Len(walk) : walk[i].capture_group_ins = ins}
  IN IF at = {} THEN 0 ELSE CHOOSE i \in at : \A j \in at : j <= i

\* The ids of the groups a walk has opened.
Opened(walk) ==
  {walk[i].capture_group_ins.id :
     i \in {j \in 1..Len(walk) : walk[j].capture_group_ins.ins = "Start"}}

\* The text group id holds on a walk: the characters of the Char tokens
\* consumed after its last Start(id), up to the End(id) that follows it or,
\* while the group is open, up to the end of the walk.
CaptureText(walk, id) ==
  LET s == LastIns(walk, InsStart(id))
      e == LastIns(walk, InsEnd(id))
  IN CharsOf(Consumed(walk, s, IF e > s THEN e ELSE Len(walk)))

\* C29: capture content.  On the walk of every frame, captures holds the
\* groups the walk has opened, and captures[id] is the sequence of the
\* characters of the Char tokens consumed between the last Start(id) of the
\* walk and the End(id) that closes it (to the end of the walk while the
\* group is open): sentinels add nothing, a character consumed while
\* several groups are open is in the text of each, and a Start(id) after an
\* earlier End(id) starts the text again from empty.
CaptureContent ==
  pc = "search" =>
    \A n \in 1..Len(stack) :
      /\ DOMAIN stack[n].capturer.captures = Opened(stack[n].walk)
      /\ \A id \in Opened(stack[n].walk) :
           stack[n].capturer.captures[id] = CaptureText(stack[n].walk, id)

\* (^(a|b)*$) on ab has reached END_STATE: group 1 has consumed the Start
\* token, a, b and the End token and holds ab; group 2, opened twice inside
\* it, holds the b of its last iteration.
CaptureContentWitness ==
  /\ pc = "search"
  /\ stack # << >>
  /\ Top(stack).state = END_STATE
  /\ Top(stack).stream = << >>
  /\ Top(stack).capturer.captures = (1 :> << "a", "b" >>) @@ (2 :> << "b" >>)
  /\ Cardinality({i \in 1..Len(Top(stack).walk) :
                    Top(stack).walk[i].capture_group_ins = InsStart(2)}) = 2

\* Whether transition i of a walk is a backreference to a group the walk has
\* not opened before it.
UnsetBackrefAt(walk, i) ==
  /\ walk[i].cond.cond = "CaptureRef"
  /\ walk[i].cond.id \notin Opened(SubSeq(walk, 1, i - 1))

\* The backreferences the popped frame is about to try whose group its walk
\* has never opened.
UnsetBackrefs ==
  {i \in 1..Len(transitions) :
     /\ transitions[i].from_state = Top(stack).state
     /\ transitions[i].cond.cond = "CaptureRef"
     /\ transitions[i].cond.id \notin Opened(Top(stack).walk)}

\* C30: a backreference to a group that the walk has never opened yields
\* NoMatch, whatever tokens remain, and the walk ends there: no frame of the
\* stack has a walk that goes through such a backreference.
UnsetBackrefFails ==
  pc = "search" =>
    /\ \A n \in 1..Len(stack) : \A i \in 1..Len(stack[n].walk) :
         ~UnsetBackrefAt(stack[n].walk, i)
    /\ stack # << >> =>
         \A i \in UnsetBackrefs :
           CondIsMatch(transitions[i].cond, Top(stack).stream,
                       Top(stack).capturer.captures) = NoMatch

\* (a|(b))\2 on a: the walk through the first alternative has closed
\* group 1 without opening group 2, and the popped frame is at \2 with
\* tokens left.
UnsetBackrefWitness ==
  /\ pc = "search"
  /\ stack # << >>
  /\ UnsetBackrefs # {}
  /\ Top(stack).stream # << >>
  /\ Top(stack).capturer.captures = (1 :> << "a" >>)

-----------------------------------------------------------------------------
(* The graph of a Repeat node.                                             *)

\* The walks counted below pass through the child this often at most.
MaxPasses == 6

\* The transitions without their states.
Erase(trs) ==
  [i \in 1..Len(trs) |->
     [cond |-> trs[i].cond, max_use |-> trs[i].max_use,
      ins |-> trs[i].capture_group_ins]]

\* The numbers of the lowering of Repeat{min, max, child}.
RepeatM(n) == IF IsSome(n.min) THEN Unwrap(n.min) ELSE 0
RepeatReq(n) == IF RepeatM(n) >= 2 THEN RepeatM(n) - 1 ELSE 0
RepeatCap(n) ==
  IF IsSome(n.max) THEN Some(Unwrap(n.max) - RepeatReq(n) - 1) ELSE None
ChildLen(n) == Len(generate(n.inner).trs)

\* The place before the first transition of copy j of the child: after the
\* entry edge and the skip edge, and for the last copy after the back edge.
CopyBase(n, j) ==
  1 + (IF RepeatM(n) = 0 THEN 1 ELSE 0) + (j - 1) * ChildLen(n)
    + (IF j = RepeatReq(n) + 1 THEN 1 ELSE 0)
Copy(n, trs, j) ==
  SubSeq(trs, CopyBase(n, j) + 1, CopyBase(n, j) + ChildLen(n))
CopyStart(n, trs, j) == trs[CopyBase(n, j) + 1].from_state
CopyEnd(n, trs, j) == trs[CopyBase(n, j) + ChildLen(n)].to_state
BackIndex(n) == CopyBase(n, RepeatReq(n) + 1)

\* The transition list of Repeat node n as the lowering lays it out.
Lowered(n, trs) ==
  /\ Len(trs) = CopyBase(n, RepeatReq(n) + 1) + ChildLen(n) + 1
  /\ trs[1] = new(START_STATE, CopyStart(n, trs, 1))
  /\ RepeatM(n) = 0 => trs[2] = new(START_STATE, END_STATE)
  /\ RepeatM(n) # 0 =>
       \A i \in 1..Len(trs) : trs[i] # new(START_STATE, END_STATE)
  /\ \A j \in 1..(RepeatReq(n) + 1) :
       Erase(Copy(n, trs, j)) = Erase(generate(n.inner).trs)
  /\ \A j \in 1..RepeatReq(n) :
       CopyEnd(n, trs, j) = CopyStart(n, trs, j + 1)
  /\ Cardinality({START_STATE, END_STATE, CopyStart(n, trs, 1)}
                 \cup {CopyEnd(n, trs, j) : j \in 1..(RepeatReq(n) + 1)})
       = RepeatReq(n) + 4
  /\ trs[BackIndex(n)]
       = new_full(CopyEnd(n, trs, RepeatReq(n) + 1),
                  CopyStart(n, trs, RepeatReq(n) + 1),
                  CondNone, RepeatCap(n), InsNone)
  /\ Cardinality({i \in 1..Len(trs) : trs[i] = trs[BackIndex(n)]}) = 1
  /\ trs[Len(trs)] = new(CopyEnd(n, trs, RepeatReq(n) + 1), END_STATE)

\* How often the walks from state to END_STATE can pass through the child,
\* up to MaxPasses: a pass ends when the walk enters the end of a copy over
\* an edge other than the back edge; used counts, by place in the list, the
\* transitions with a max_use on the walk.
RECURSIVE PassCounts(_, _, _, _, _, _)
PassCounts(trs, ends, back, state, used, passes) ==
  IF passes > MaxPasses THEN {}
  ELSE (IF state = END_STATE THEN {passes} ELSE {})
       \cup UNION {
         PassCounts(trs, ends, back, trs[i].to_state,
                    IF IsSome(trs[i].max_use)
                    THEN [used EXCEPT ![i] = @ + 1] ELSE used,
                    IF trs[i].to_state \in ends /\ i # back
                    THEN passes + 1 ELSE passes) :
           i \in {k \in 1..Len(trs) :
                    /\ trs[k].from_state = state
                    /\ IsSome(trs[k].max_use) =>
                         used[k] < Unwrap(trs[k].max_use)} }

PassCountsOf(n, trs) ==
  PassCounts(trs, {CopyEnd(n, trs, j) : j \in 1..(RepeatReq(n) + 1)},
             BackIndex(n), START_STATE, [i \in 1..Len(trs) |-> 0], 0)

\* The Repeat nodes the lowering is stated for.
Lowerable(n) ==
  /\ ~(IsSome(n.max) /\ Unwrap(n.max) = 0)
  /\ ~(IsSome(n.max) /\ IsSome(n.min) /\ Unwrap(n.max) < Unwrap(n.min))

\* C31: Repeat lowering.  For Repeat{min, max, child} with max # Some(0) and
\* not max < min, generate yields the entry edge, the skip edge iff
\* m = min.unwrap_or(0) is 0, req_len copies of the child chained through
\* fresh states (req_len = m - 1 if m >= 2, else 0), one back edge with
\* max_use = max - req_len - 1 (None for no max), one more copy and the exit
\* edge; and, with the back edge's max_use counted per walk, the numbers of
\* passes through the child of the walks from start to end are exactly the
\* numbers from min to max.
RepeatLowering ==
  (call.fn = "AstNode::generate" /\ Lowerable(call.args[1])) =>
    /\ ~call.ret.panic
    /\ Lowered(call.args[1], call.ret.trs)
    /\ PassCountsOf(call.args[1], call.ret.trs)
         = {k \in 0..MaxPasses :
              /\ k >= RepeatM(call.args[1])
              /\ IsSome(call.args[1].max) => k <= Unwrap(call.args[1].max)}

\* generate of (a|b){2,3}: one unrolled copy, the back edge with max_use 1,
\* and walks of two and of three passes.
RepeatLoweringWitness ==
  /\ call.fn = "AstNode::generate"
  /\ call.args[1].min = Some(2)
  /\ call.args[1].max = Some(3)
  /\ call.args[1].inner.node = "Alt"
  /\ call.ret.trs[BackIndex(call.args[1])].max_use = Some(1)
  /\ PassCountsOf(call.args[1], call.ret.trs) = {2, 3}

-----------------------------------------------------------------------------
(* Cycles of the compiled graph.                                           *)

\* A transition that consumes no token and has no max_use.
Free(tr) == tr.cond.cond = "None" /\ ~IsSome(tr.max_use)

\* The states reached from the states of S over free transitions, S
\* included.
RECURSIVE FreeReach(_, _)
FreeReach(trs, S) ==
  LET more == S \cup {trs[i].to_state :
                        i \in {k \in 1..Len(trs) :
                                 Free(trs[k]) /\ trs[k].from_state \in S}}
  IN IF more = S THEN S ELSE FreeReach(trs, more)

\* The free transitions that lie on a cycle of free transitions.
FreeCycleEdges(trs) ==
  {i \in 1..Len(trs) :
     Free(trs[i]) /\ trs[i].from_state \in FreeReach(trs, {trs[i].to_state})}

\* C32: in the graph compiled from a parsed pattern every cycle has a
\* transition whose condition consumes a token or that has a max_use: no
\* cycle is made of transitions with Cond::None and max_use = None alone.
NoUnboundedEpsilonCycle ==
  pc = "compiled" => FreeCycleEdges(transitions) = {}

-----------------------------------------------------------------------------
(* The searches of one call.                                               *)

\* The search of the run ends as the search made from its offset alone does.
SearchAsFromScratch ==
  /\ (pc = "search" /\ stack # << >> /\ Top(stack).state = END_STATE) =>
       SearchAt(transitions, loop_start_transitions, chars, offset)
         = [out |-> "accept", stream |-> Top(stack).stream]
  /\ (pc = "search" /\ stack = << >>) =>
       SearchAt(transitions, loop_start_transitions, chars, offset).out
         = "exhausted"
  /\ pc = "done" =>
       IsMatchOf(transitions, chars).matches = matches

\* C33: fresh search per offset.  Every search starts with an empty
\* visit_counter, a new id provider (its first id, 0, given to the first
\* frame) and one frame with an empty Capturer; so the search from an
\* offset ends as it would with no search before it, whatever the earlier
\* searches of the call counted and captured, and a call of is_match on the
\* same graph and tokens returns the ranges of the run.
FreshSearch ==
  /\ []SearchAsFromScratch
  /\ [][(pc = "main_loop" /\ pc' = "search") =>
          /\ visit_counter' = << >>
          /\ id_provider' = 1
          /\ Len(stack') = 1
          /\ stack'[1].capturer = CapturerNew
          /\ stack'[1].loop_id = 0
          /\ stack'[1].state = START_STATE
          /\ stack'[1].stream = SliceFrom(chars, offset)
       ]_vars

\* a{0,2} on aaa: the search from offset 1 has taken the back edge and
\* recorded (1, 3); the search from offset 3 starts with an empty counter.
FreshSearchWitness ==
  /\ pc = "search"
  /\ pattern = << "a", "{", "0", ",", "2", "}" >>
  /\ subject = << "a", "a", "a" >>
  /\ offset = 3
  /\ matches # << >>
  /\ matches[Len(matches)] = << 1, 3 >>
  /\ visit_counter = << >>
  /\ Len(stack) = 1
  /\ Top(stack).walk = << >>

-----------------------------------------------------------------------------
(* `|` and `)` outside a group.                                            *)

\* The text a pattern of TopLevelBarPatterns stands for.
BarText(P) ==
  IF P = << "(", "a", ")", "|", "b" >> THEN << "a", "|", "b" >> ELSE P

\* The tree of a pattern all of whose characters are literals.
LiteralTree(P) ==
  AstRoot(AstSeq([i \in 1..Len(P) |-> AstChar(LitChar(P[i]))]))

\* Whether text occurs in line.
Occurs(text, line) ==
  \E i \in 0..(Len(line) - Len(text)) :
    SubSeq(line, i + 1, i + Len(text)) = text

\* C34: outside every group `|` and `)` are literals: such a pattern
\* parses, each `|` and `)` of its top level to a Char atom of the top-level
\* sequence (a|b to the sequence of the three literals a, |, b), and
\* is_match reports a match iff the text occurs in the subject, every range
\* being an occurrence of it.
TopLevelBarIsLiteral ==
  pattern \in TopLevelBarPatterns =>
    /\ pc \notin {"parse_error", "parse_panic", "compile_panic"}
    /\ pc # "start" =>
         /\ ast.tag = "Ok"
         /\ pattern[1] # "(" => ast.node = LiteralTree(pattern)
         /\ pattern[1] = "(" =>
              /\ Len(ast.node.inner.items) = 3
              /\ ast.node.inner.items[1].node = "Alt"
              /\ ast.node.inner.items[2] = AstChar(LitChar("|"))
              /\ ast.node.inner.items[3] = AstChar(LitChar("b"))
    /\ pc = "done" =>
         /\ IsMatch <=> Occurs(BarText(pattern), subject)
         /\ \A k \in 1..Len(matches) :
              CharsOf(RangeTokens(chars, matches[k])) = BarText(pattern)

\* a|b on ba|b): one range, the three tokens a, |, b.
TopLevelBarWitness ==
  /\ pc = "done"
  /\ pattern = << "a", "|", "b" >>
  /\ subject = << "b", "a", "|", "b", ")" >>
  /\ ast.node = LiteralTree(pattern)
  /\ matches = << << 2, 5 >> >>

-----------------------------------------------------------------------------
(* The slices main takes of a line.                                        *)

\* A line of ASCII characters: its length in bytes is its length in
\* characters.
AsciiLine(line) == \A i \in 1..Len(line) : LenUtf8(line[i]) = 1

\* C35: for a subject of n ASCII characters, every range (start, end)
\* is_match records gives slice bounds that main can use:
\* range_start_adjust(start) <= range_end_adjust(end, n) <= n, neither
\* subtraction overflowing; also for a range of no token at the Start or the
\* End token and for a range that holds one of them.
AdjustedRangesAreSliceBounds ==
  AsciiLine(subject) =>
    \A k \in 1..Len(matches) :
      /\ ~range_start_adjust(matches[k][1]).overflow
      /\ ~range_end_adjust(matches[k][2], Len(subject)).overflow
      /\ range_start_adjust(matches[k][1]).value
           <= range_end_adjust(matches[k][2], Len(subject)).value
      /\ range_end_adjust(matches[k][2], Len(subject)).value <= Len(subject)

\* A finished run on an ASCII line with a range of no token at the Start
\* token, a range of characters, and a range of no token at the End token.
AdjustedRangesWitness ==
  /\ pc = "done"
  /\ AsciiLine(subject)
  /\ subject # << >>
  /\ \E k \in 1..Len(matches) : matches[k] = << 0, 0 >>
  /\ \E k \in 1..Len(matches) : matches[k][1] < matches[k][2]
  /\ \E k \in 1..Len(matches) :
       matches[k] = << Len(chars) - 1, Len(chars) - 1 >>

-----------------------------------------------------------------------------
(* The states of the compiled graph.                                       *)

\* The states that occur in a transition list.
StatesOf(trs) ==
  {trs[i].from_state : i \in 1..Len(trs)}
  \cup {trs[i].to_state : i \in 1..Len(trs)}

\* C36: the graph generate() compiles goes from state 0 to state 1; the
\* states that occur in its transitions are exactly 0, 1 and the ids
\* 2 .. C - 1 drawn from the id provider, C its value at the end, none left
\* out; no transition enters state 0 and none leaves state 1.
CompiledGraphShape ==
  pc = "compiled" =>
    /\ StatesOf(transitions) = 0..(generate(ast.node).v - 1)
    /\ {START_STATE, END_STATE} \subseteq StatesOf(transitions)
    /\ \A i \in 1..Len(transitions) :
         /\ transitions[i].to_state # START_STATE
         /\ transitions[i].from_state # END_STATE

\* A compiled graph with a capped back edge and eight states or more.
CompiledGraphWitness ==
  /\ pc = "compiled"
  /\ Cardinality(StatesOf(transitions)) >= 8
  /\ \E i \in 1..Len(transitions) : IsSome(transitions[i].max_use)

-----------------------------------------------------------------------------
(* The reader.                                                             *)

\* The length of the longest prefix of stream whose elements are all in
\* pred.
LongestPrefix(stream, pred) ==
  CHOOSE n \in 0..Len(stream) :
    /\ \A i \in 1..n : stream[i] \in pred
    /\ n < Len(stream) => stream[n + 1] \notin pred

\* C37: parse_while(pred) returns the longest prefix of the stream whose
\* elements all satisfy pred, of no element, of one or of more, and leaves
\* the stream behind that prefix.
ReaderTakeWhile ==
  call.fn = "Reader::parse_while" =>
    /\ call.ret[1]
         = SliceTo(call.args[1], LongestPrefix(call.args[1], call.args[2]))
    /\ call.ret[2]
         = SliceFrom(call.args[1], LongestPrefix(call.args[1], call.args[2]))

=============================================================================
